---- MODULE Spec2Model ----
(***************************************************************************)
(* Road-trip planner (JaceyJ/VibeCoding): overnight-stop selection, the    *)
(* itinerary's basic-stop fallback, POI fetching with radius escalation    *)
(* and POI de-duplication, modelled from the JavaScript sources.           *)
(*                                                                         *)
(* Distances are integers on a grid whose unit divides the ideal daily     *)
(* distance, so that every product the code forms (ideal * d, ideal * 0.5, *)
(* ideal * 0.3, ...) is compared exactly by cross-multiplication.          *)
(* The repository holds several drafts of the same functions; each draft   *)
(* a claim cites is modelled under its own name, suffixed with the file    *)
(* and line it starts at (ui = src/ui.js, u952 = src/utils.js:952, ...).   *)
(***************************************************************************)
EXTENDS Integers, Sequences, FiniteSets, TLC

\* ---------------------------------------------------------------- bounds
IdealUnits == 5      \* grid units in one ideal daily distance
MaxDays == 3         \* days of a planning request range over 1..MaxDays
MaxCands == 2        \* candidates handed to selectOvernightStops
MaxScore == 2        \* accommodationScore ranges over 1..MaxScore
MaxPois == 3         \* POIs in a list handed to removeDuplicatePois
MaxTitleLen == 1     \* characters of a generated POI title
MaxRoadside == 3     \* roadside stops handed to createSmartItinerary
MaxCoord == 3        \* vertices of a generated polyline lie at 0..MaxCoord
MaxCallers == 2      \* concurrent callers of executeOverpassQuery
MaxCalls == 2        \* calls each of them makes, one after the other
MaxTicks == 4        \* the clock runs for MaxTicks ticks
MaxStops == 3        \* stops planTrip gathers POIs and lodging for
MaxPlans == 3        \* planTrip calls made on one page

NULL == [null |-> TRUE]

Abs(x) == IF x < 0 THEN -x ELSE x

\* ------------------------------------------------------------ variables
VARIABLES
    pc,              \* position of the running function
    totalDistance,   \* route.distance
    days,            \* requested day count
    overnightStops,  \* candidates with lodging, as found along the route
    coordinates,     \* route.geometry.coordinates, positions on one axis
    impl,            \* which draft ran
    stops,           \* the stops returned to the caller
    d,               \* loop index of the basic-stop fallback
    pace,            \* the pace preset of the request
    sample,          \* loop index i of findOvernightStops
    dedupInput,      \* the list handed to removeDuplicatePois
    dedupOutput,     \* the list it returned
    radiusMeters,    \* fetchPoisSimple: the radius the caller passed
    limit,           \* fetchPoisSimple: the caller's limit
    preferences,     \* fetchPoisSimple: the caller's preference list
    searchIndex,     \* position in searchRadii of the running loop turn
    poisFetched,     \* the array the loop pushes the providers' POIs to
    queryLog,        \* every provider call made so far, with its radius
    answers,         \* what each provider call gave back
    result,          \* the list fetchPoisSimple returned
    roadsideStops,   \* createSmartItinerary: the roadside stops it was given
    itineraryDays,   \* the day entries createSmartItinerary has pushed
    planDay,         \* the day loop's counter, day in the code
    routeTarget,     \* findClosestPointOnRoute: its targetDistance argument
    routePoint,      \* the point findClosestPointOnRoute returned
    now,             \* Date.now(), in milliseconds
    lastOverpassRequest, \* the module variable of that name
    callerPc,        \* where each caller of executeOverpassQuery stands
    wakeAt,          \* when the timer of a waiting caller is due
    callsMade,       \* the calls each caller has started
    requestTimes,    \* the time of every request sent to Overpass
    poiQuery,        \* planTrip: the fetchPoisSimple promise of each stop
    accQuery,        \* planTrip: the fetchAccommodations promise of each stop
    entries,         \* what the async callback of each stop returned
    completionOrder, \* the stops in the order their callbacks returned
    poisPerStop,     \* the array the outer Promise.all resolved to
    foundLodging,    \* findOvernightStops: the accommodations of the point at hand
    progressCallback, \* computeSmartTripStops: "absent", "returns" or "throws"
    responses,       \* what Overpass finds at each sample point of the route
    geocodes,        \* whether Nominatim names the sample points
    totalDuration,   \* route.duration of a planning request, in hours
    daysInput,       \* the day count of the request: <<n>>, or <<>> for NaN
    routeFound,      \* whether geocode and fetchRoute answer the request
    paceConfig,      \* the TRIP_PACE_CONFIG object as it stands, by pace
    driveTimeRange,  \* getDriveTimeRange() of the planTrip call at hand
    plansMade,       \* planTrip calls made since the page was loaded
    submitDisabled,  \* the disabled flag of the form's submit button
    fieldsFilled,    \* whether the start and the end field of the call had text
    tryOutcome,      \* how the try block of the latest planTrip call ended
    focused,         \* the location input that has the keyboard focus, or "none"
    inputValue,      \* input.value of the start and of the end input
    lastQuery,       \* lastQuery of each setupAutocomplete closure
    debounceTimer,   \* whether the debounce timeout of each input handler is set
    containerShown,  \* container.style.display === 'block', per suggestion container
    currentSuggestions,       \* module-level currentSuggestions
    selectedSuggestionIndex,  \* module-level selectedSuggestionIndex
    searches,        \* the listeners awaiting their searchLocations call
    enteredSuggestion \* what the latest event wrote into which input, if it was an Enter

selVars == <<pc, totalDistance, days, overnightStops, coordinates, impl, stops, d, pace, sample>>

dedupVars == <<dedupInput, dedupOutput>>

poiVars == <<radiusMeters, limit, preferences, searchIndex, poisFetched, queryLog, answers, result>>

asmVars == <<roadsideStops, itineraryDays, planDay>>

routeVars == <<routeTarget, routePoint>>

rateVars == <<now, lastOverpassRequest, callerPc, wakeAt, callsMade, requestTimes>>

gatherVars == <<poiQuery, accQuery, entries, completionOrder, poisPerStop>>

scoutVars == <<foundLodging>>

progressVars == <<progressCallback, responses, geocodes>>

requestVars == <<totalDuration, daysInput, routeFound>>

presetVars == <<paceConfig, driveTimeRange, plansMade>>

buttonVars == <<submitDisabled, fieldsFilled, tryOutcome>>

autoVars == <<focused, inputValue, lastQuery, debounceTimer, containerShown, currentSuggestions, selectedSuggestionIndex, searches, enteredSuggestion>>

vars == <<selVars, dedupVars, poiVars, asmVars, routeVars, rateVars, gatherVars, scoutVars, progressVars, requestVars, presetVars, buttonVars, autoVars>>

\* The variables of a component that a specification leaves untouched.
IdleSelect ==
    /\ totalDistance = 0
    /\ days = 1
    /\ overnightStops = <<>>
    /\ coordinates = <<>>
    /\ stops = <<>>
    /\ d = 0
    /\ pace = "balanced"
    /\ sample = 0

IdleDedup ==
    /\ dedupInput = <<>>
    /\ dedupOutput = <<>>

IdleAssemble ==
    /\ roadsideStops = <<>>
    /\ itineraryDays = <<>>
    /\ planDay = 0

IdleRoute ==
    /\ routeTarget = 0
    /\ routePoint = NULL

IdleRate ==
    /\ now = 0
    /\ lastOverpassRequest = 0
    /\ callerPc = <<>>
    /\ wakeAt = <<>>
    /\ callsMade = <<>>
    /\ requestTimes = <<>>

IdleGather ==
    /\ poiQuery = <<>>
    /\ accQuery = <<>>
    /\ entries = <<>>
    /\ completionOrder = <<>>
    /\ poisPerStop = <<>>

IdleScout == foundLodging = 0

IdleProgress ==
    /\ progressCallback = "absent"
    /\ responses = <<>>
    /\ geocodes = FALSE

IdleRequest ==
    /\ totalDuration = 0
    /\ daysInput = <<>>
    /\ routeFound = TRUE

IdleButton ==
    /\ submitDisabled = FALSE
    /\ fieldsFilled = TRUE
    /\ tryOutcome = "none"

\* The two location inputs of the planner form.
Inputs == {"start", "end"}

IdleAuto ==
    /\ focused = "none"
    /\ inputValue = [inp \in Inputs |-> ""]
    /\ lastQuery = [inp \in Inputs |-> ""]
    /\ debounceTimer = [inp \in Inputs |-> FALSE]
    /\ containerShown = [inp \in Inputs |-> FALSE]
    /\ currentSuggestions = <<>>
    /\ selectedSuggestionIndex = -1
    /\ searches = {}
    /\ enteredSuggestion = <<>>

IdlePoi ==
    /\ radiusMeters = 0
    /\ limit = 0
    /\ preferences = <<>>
    /\ searchIndex = 0
    /\ poisFetched = <<>>
    /\ queryLog = <<>>
    /\ answers = <<>>
    /\ result = <<>>

\* ------------------------------------------- TRIP_PACE_CONFIG, src/config.js:4
\* minActivityTime is kept in tenths of an hour (1.5 h = 15).
TRIP_PACE_CONFIG ==
    [fast     |-> [maxDailyDrivingHours |-> 8, maxRoadsideStops |-> 1,
                   minActivityTimeTenths |-> 10, accommodationRadius |-> 5000,
                   poiRadius |-> 15000, maxPoisPerStop |-> 3],
     balanced |-> [maxDailyDrivingHours |-> 6, maxRoadsideStops |-> 3,
                   minActivityTimeTenths |-> 15, accommodationRadius |-> 8000,
                   poiRadius |-> 25000, maxPoisPerStop |-> 5],
     explore  |-> [maxDailyDrivingHours |-> 4, maxRoadsideStops |-> 5,
                   minActivityTimeTenths |-> 20, accommodationRadius |-> 10000,
                   poiRadius |-> 30000, maxPoisPerStop |-> 8]]

PaceNames == {"fast", "balanced", "explore"}

\* src/utils.js:2417-2445 the presets as the module defines them; planTrip
\* of src/utils.js:2028 adds minDailyDrivingHours (0 stands for absent).
PacePresets ==
    [p \in PaceNames |->
        [maxDailyDrivingHours |-> TRIP_PACE_CONFIG[p].maxDailyDrivingHours,
         minDailyDrivingHours |-> 0]]

IdlePreset ==
    /\ paceConfig = PacePresets
    /\ driveTimeRange = [min |-> 4, max |-> 8]
    /\ plansMade = 0

Min(a, b) == IF a < b THEN a ELSE b

\* ----------------------------------------------------- candidate records
Stop(dist, score, type, name) ==
    [distanceFromStart |-> dist, accommodationScore |-> score,
     type |-> type, name |-> name]

\* src/utils.js:4 calculateDistance, on a route laid out along one axis.
calculateDistance(p1, p2) == Abs(p2 - p1)

\* ------------------------------------------------------------- strings
\* A string is a sequence of one-character strings, so that toLowerCase,
\* trim and includes are computed character by character.
UpperCase == <<"A", "B", "C", "D", "E", "F", "G", "H", "I", "J", "K", "L", "M", "N", "O", "P", "Q", "R", "S", "T", "U", "V", "W", "X", "Y", "Z">>
LowerCase == <<"a", "b", "c", "d", "e", "f", "g", "h", "i", "j", "k", "l", "m", "n", "o", "p", "q", "r", "s", "t", "u", "v", "w", "x", "y", "z">>

\* The lower-case form of every upper-case letter.
LowerTable ==
    [c \in {UpperCase[k] : k \in 1..Len(UpperCase)} |->
        LowerCase[CHOOSE k \in 1..Len(UpperCase) : UpperCase[k] = c]]

LowerOf(c) == IF c \in DOMAIN LowerTable THEN LowerTable[c] ELSE c

\* String.prototype.toLowerCase
toLowerCase(str) == [k \in 1..Len(str) |-> LowerOf(str[k])]

\* String.prototype.trim: white space taken off both ends.
RECURSIVE trim(_)
trim(str) ==
    IF str = <<>> THEN <<>>
    ELSE IF Head(str) = " " THEN trim(Tail(str))
    ELSE IF str[Len(str)] = " " THEN trim(SubSeq(str, 1, Len(str) - 1))
    ELSE str

\* String.prototype.includes
includes(str, word) ==
    \E k \in 0..(Len(str) - Len(word)) : SubSeq(str, k + 1, k + Len(word)) = word

\* poi.title.toLowerCase().trim(), the key of removeDuplicatePois
normalizedTitle(poi) == trim(toLowerCase(poi.title))

\* ---------------------------------------------- removeDuplicatePois
\* A loop that keys the POIs by their raw title.
RECURSIVE DedupLoop_rawTitle(_, _, _, _)
DedupLoop_rawTitle(pois, k, uniquePois, seenTitles) ==
    IF k > Len(pois) THEN uniquePois
    ELSE IF pois[k].title \notin seenTitles
         THEN DedupLoop_rawTitle(pois, k + 1, Append(uniquePois, pois[k]),
                                 seenTitles \cup {pois[k].title})
    ELSE DedupLoop_rawTitle(pois, k + 1, uniquePois, seenTitles)

\* src/utils.js:32: the loop pushes a POI whose key was not seen before.
RECURSIVE DedupLoop(_, _, _, _)
DedupLoop(pois, k, uniquePois, seenTitles) ==
    IF k > Len(pois) THEN uniquePois
    ELSE IF normalizedTitle(pois[k]) \notin seenTitles
         THEN DedupLoop(pois, k + 1, Append(uniquePois, pois[k]),
                        seenTitles \cup {normalizedTitle(pois[k])})
    ELSE DedupLoop(pois, k + 1, uniquePois, seenTitles)

removeDuplicatePois(pois) == DedupLoop(pois, 1, <<>>, {})

\* src/utils.js:2596: a filter that drops a POI whose key is in `seen`.
RECURSIVE DedupFilter(_, _)
DedupFilter(pois, seen) ==
    IF pois = <<>> THEN <<>>
    ELSE IF normalizedTitle(Head(pois)) \in seen
         THEN DedupFilter(Tail(pois), seen)
    ELSE <<Head(pois)>> \o DedupFilter(Tail(pois), seen \cup {normalizedTitle(Head(pois))})

removeDuplicatePois_u2596(pois) == DedupFilter(pois, {})

\* ------------------------------------------------------ categorizePoi
\* src/utils.js:48: the rules in the order the function tries them.
CategoryRules ==
    <<[words |-> { <<"m", "u", "s", "e", "u", "m">>, <<"g", "a", "l", "l", "e", "r", "y">> },
       category |-> <<"M", "u", "s", "e", "u", "m">>],
      [words |-> { <<"p", "a", "r", "k">>, <<"g", "a", "r", "d", "e", "n">> },
       category |-> <<"P", "a", "r", "k">>],
      [words |-> { <<"h", "i", "s", "t", "o", "r", "i", "c">>,
                 <<"m", "o", "n", "u", "m", "e", "n", "t">>,
                 <<"m", "e", "m", "o", "r", "i", "a", "l">> },
       category |-> <<"H", "i", "s", "t", "o", "r", "i", "c", " ", "S", "i", "t", "e">>],
      [words |-> { <<"r", "e", "s", "t", "a", "u", "r", "a", "n", "t">>, <<"c", "a", "f", "e">>,
                 <<"b", "a", "r">> },
       category |-> <<"F", "o", "o", "d", " ", "&", " ", "D", "r", "i", "n", "k">>],
      [words |-> { <<"z", "o", "o">>, <<"a", "q", "u", "a", "r", "i", "u", "m">> },
       category |-> <<"Z", "o", "o", "/", "A", "q", "u", "a", "r", "i", "u", "m">>],
      [words |-> { <<"t", "h", "e", "a", "t", "e", "r">>, <<"t", "h", "e", "a", "t", "r", "e">>,
                 <<"c", "i", "n", "e", "m", "a">> },
       category |-> <<"E", "n", "t", "e", "r", "t", "a", "i", "n", "m", "e", "n", "t">>],
      [words |-> { <<"b", "e", "a", "c", "h">>, <<"l", "a", "k", "e">>, <<"r", "i", "v", "e", "r">> },
       category |-> <<"S", "c", "e", "n", "i", "c", " ", "V", "i", "e", "w">>],
      [words |-> { <<"c", "h", "u", "r", "c", "h">>, <<"c", "a", "t", "h", "e", "d", "r", "a", "l">>,
                 <<"t", "e", "m", "p", "l", "e">> },
       category |-> <<"H", "i", "s", "t", "o", "r", "i", "c", " ", "S", "i", "t", "e">>],
      [words |-> { <<"c", "a", "s", "t", "l", "e">>, <<"p", "a", "l", "a", "c", "e">>,
                 <<"f", "o", "r", "t">> },
       category |-> <<"H", "i", "s", "t", "o", "r", "i", "c", " ", "S", "i", "t", "e">>],
      [words |-> { <<"v", "i", "e", "w", "p", "o", "i", "n", "t">>,
                 <<"o", "v", "e", "r", "l", "o", "o", "k">>, <<"s", "c", "e", "n", "i", "c">> },
       category |-> <<"S", "c", "e", "n", "i", "c", " ", "V", "i", "e", "w">>] >>

RECURSIVE CategorizeFrom(_, _)
CategorizeFrom(titleLower, k) ==
    IF k > Len(CategoryRules) THEN <<"A", "t", "t", "r", "a", "c", "t", "i", "o", "n">>
    ELSE IF \E word \in CategoryRules[k].words : includes(titleLower, word)
         THEN CategoryRules[k].category
    ELSE CategorizeFrom(titleLower, k + 1)

categorizePoi(title) == CategorizeFrom(toLowerCase(title), 1)

\* ----------------------------------------------------------- providers
\* The first truthy operand of a || chain; an absent tag is NULL.
Truthy(v) == v # NULL /\ v # <<>>

\* src/unnamed/part_000:2001 fetchWikipediaAttractions: the geosearch items
\* that carry an include term and no exclude term, as POIs.
excludeTerms ==
    { <<"h", "i", "g", "h", "w", "a", "y">>, <<"r", "o", "a", "d">>,
      <<"s", "t", "r", "e", "e", "t">>, <<"a", "v", "e", "n", "u", "e">>,
      <<"b", "o", "u", "l", "e", "v", "a", "r", "d">>, <<"l", "a", "n", "e">>,
      <<"d", "r", "i", "v", "e">>, <<"a", "i", "r", "p", "o", "r", "t">>,
      <<"s", "t", "a", "t", "i", "o", "n">>, <<"t", "e", "r", "m", "i", "n", "a", "l">>,
      <<"p", "l", "a", "t", "f", "o", "r", "m">>, <<"s", "t", "o", "p">>, <<"b", "u", "s">>,
      <<"t", "r", "a", "i", "n">>, <<"b", "r", "i", "d", "g", "e">>,
      <<"t", "u", "n", "n", "e", "l">>,
      <<"i", "n", "t", "e", "r", "s", "e", "c", "t", "i", "o", "n">>,
      <<"j", "u", "n", "c", "t", "i", "o", "n">>, <<"c", "r", "o", "s", "s", "i", "n", "g">> }

includeTerms ==
    { <<"m", "u", "s", "e", "u", "m">>, <<"p", "a", "r", "k">>, <<"g", "a", "r", "d", "e", "n">>,
      <<"h", "i", "s", "t", "o", "r", "i", "c">>, <<"m", "o", "n", "u", "m", "e", "n", "t">>,
      <<"m", "e", "m", "o", "r", "i", "a", "l">>,
      <<"r", "e", "s", "t", "a", "u", "r", "a", "n", "t">>, <<"c", "a", "f", "e">>,
      <<"b", "a", "r">>, <<"t", "h", "e", "a", "t", "e", "r">>,
      <<"t", "h", "e", "a", "t", "r", "e">>, <<"c", "i", "n", "e", "m", "a">>, <<"z", "o", "o">>,
      <<"a", "q", "u", "a", "r", "i", "u", "m">>, <<"b", "e", "a", "c", "h">>,
      <<"l", "a", "k", "e">>, <<"r", "i", "v", "e", "r">>,
      <<"v", "i", "e", "w", "p", "o", "i", "n", "t">>, <<"c", "h", "u", "r", "c", "h">>,
      <<"c", "a", "t", "h", "e", "d", "r", "a", "l">>, <<"c", "a", "s", "t", "l", "e">>,
      <<"p", "a", "l", "a", "c", "e">>, <<"f", "o", "r", "t">>, <<"r", "u", "i", "n", "s">> }

WikipediaRelevant(item) ==
    LET title == toLowerCase(item.title)
    IN  /\ ~ \E term \in excludeTerms : includes(title, term)
        /\ \E term \in includeTerms : includes(title, term)

WikipediaPoi(x) ==
    [title |-> x.title, distanceMeters |-> x.dist * 1000,
     source |-> "wikipedia", category |-> categorizePoi(x.title)]

fetchWikipediaAttractions(items) ==
    LET filteredItems == SelectSeq(items, WikipediaRelevant)
    IN  [k \in 1..Len(filteredItems) |-> WikipediaPoi(filteredItems[k])]

\* src/unnamed/part_000:2055 fetchOverpassAttractions: every element as a
\* POI, cut to the limit. The location queried is position 0.
OverpassName(element) ==
    IF Truthy(element.tags.name) THEN element.tags.name
    ELSE IF Truthy(element.tags.tourism) THEN element.tags.tourism
    ELSE IF Truthy(element.tags.amenity) THEN element.tags.amenity
    ELSE <<"U", "n", "n", "a", "m", "e", "d", " ", "L", "o", "c", "a", "t", "i", "o", "n">>

OverpassPoi(element) ==
    [title |-> OverpassName(element),
     distanceMeters |-> calculateDistance(0, element.pos),
     source |-> "overpass", category |-> categorizePoi(OverpassName(element))]

Slice(list, lim) == SubSeq(list, 1, Min(lim, Len(list)))

fetchOverpassAttractions(elements, lim) ==
    Slice([k \in 1..Len(elements) |-> OverpassPoi(elements[k])], lim)

\* ----------------------------------------- fetchPoisSimple, src/ui.js:387
targetRadius == 16000

searchRadii == <<targetRadius, targetRadius * 2, targetRadius * 3>>

\* A generic set that is empty.
createGenericPois_none == <<>>

\* src/ui.js:474 createGenericPois. The coordinates and the url of a POI take
\* no part in what fetchPoisSimple does with it and are left out.
createGenericPois ==
    << [title |-> <<"L", "o", "c", "a", "l", " ", "P", "a", "r", "k">>, distanceMeters |-> 0,
        source |-> "generic", category |-> <<"P", "a", "r", "k">>],
       [title |-> <<"H", "i", "s", "t", "o", "r", "i", "c", " ", "S", "i", "t", "e">>, distanceMeters |-> 1000,
        source |-> "generic", category |-> <<"H", "i", "s", "t", "o", "r", "i", "c", " ", "S", "i", "t", "e">>],
       [title |-> <<"L", "o", "c", "a", "l", " ", "R", "e", "s", "t", "a", "u", "r", "a", "n", "t">>, distanceMeters |-> 500,
        source |-> "generic", category |-> <<"F", "o", "o", "d", " ", "&", " ", "D", "r", "i", "n", "k">>] >>

\* The switch of the preference filter: the words a preference looks for in
\* the lower-cased category; a preference it does not know accepts every POI.
PreferenceWords ==
    [outdoor |-> { <<"p", "a", "r", "k">>, <<"n", "a", "t", "u", "r", "e">>,
          <<"o", "u", "t", "d", "o", "o", "r">> },
     cultural |-> { <<"m", "u", "s", "e", "u", "m">>, <<"h", "i", "s", "t", "o", "r", "i", "c">>,
          <<"c", "u", "l", "t", "u", "r", "a", "l">> },
     entertainment |-> { <<"e", "n", "t", "e", "r", "t", "a", "i", "n", "m", "e", "n", "t">>,
          <<"t", "h", "e", "a", "t", "e", "r">> },
     food |-> { <<"f", "o", "o", "d">>, <<"r", "e", "s", "t", "a", "u", "r", "a", "n", "t">> },
     family |-> { <<"f", "a", "m", "i", "l", "y">>, <<"z", "o", "o">>,
          <<"a", "q", "u", "a", "r", "i", "u", "m">> },
     adventure |-> { <<"a", "d", "v", "e", "n", "t", "u", "r", "e">>, <<"s", "p", "o", "r", "t", "s">> }]

PreferenceAccepts(pref, category) ==
    IF pref \in DOMAIN PreferenceWords
    THEN \E word \in PreferenceWords[pref] : includes(category, word)
    ELSE TRUE

FilterByPreferences(list, prefs) ==
    LET Keep(poi) == \E k \in 1..Len(prefs) :
                         PreferenceAccepts(prefs[k], toLowerCase(poi.category))
    IN  SelectSeq(list, Keep)

\* A filter that is never waived.
filteredPois_noWaiver(list, prefs) ==
    IF Len(prefs) > 0 THEN FilterByPreferences(list, prefs) ELSE list

\* src/ui.js:442-462: the filter, waived when it leaves nothing.
filteredPois(list, prefs) ==
    IF Len(prefs) > 0
    THEN IF Len(FilterByPreferences(list, prefs)) = 0 THEN list
         ELSE FilterByPreferences(list, prefs)
    ELSE list

\* src/ui.js:434-468: what follows the loop, from the array it filled.
WithGeneric(list) == IF Len(list) = 0 THEN createGenericPois ELSE list

ReturnedPois(list, prefs, lim) ==
    Slice(removeDuplicatePois(filteredPois(WithGeneric(list), prefs)), lim)

\* ------------------------------------- the ranking, src/utils.js:1466-1501
\* The categoryPriority table of the comparator of filterAndRankPois.
categoryPriorityTable ==
    << [category |-> <<"M", "u", "s", "e", "u", "m">>, priority |-> 5],
       [category |-> <<"Z", "o", "o", "/", "A", "q", "u", "a", "r", "i", "u", "m">>, priority |-> 4],
       [category |-> <<"H", "i", "s", "t", "o", "r", "i", "c", " ", "S", "i", "t", "e">>, priority |-> 4],
       [category |-> <<"H", "i", "s", "t", "o", "r", "i", "c", " ", "B", "u", "i", "l", "d", "i", "n", "g">>, priority |-> 4],
       [category |-> <<"E", "n", "t", "e", "r", "t", "a", "i", "n", "m", "e", "n", "t">>, priority |-> 3],
       [category |-> <<"N", "a", "t", "u", "r", "e">>, priority |-> 3],
       [category |-> <<"O", "u", "t", "d", "o", "o", "r">>, priority |-> 4],
       [category |-> <<"C", "u", "l", "t", "u", "r", "a", "l">>, priority |-> 5],
       [category |-> <<"F", "o", "o", "d", " ", "&", " ", "D", "r", "i", "n", "k">>, priority |-> 3],
       [category |-> <<"F", "a", "m", "i", "l", "y">>, priority |-> 4],
       [category |-> <<"A", "d", "v", "e", "n", "t", "u", "r", "e">>, priority |-> 3],
       [category |-> <<"P", "a", "r", "k">>, priority |-> 2],
       [category |-> <<"A", "t", "t", "r", "a", "c", "t", "i", "o", "n">>, priority |-> 1] >>

\* categoryPriority[category] || 1
categoryPriority(category) ==
    IF \E k \in 1..Len(categoryPriorityTable) : categoryPriorityTable[k].category = category
    THEN categoryPriorityTable[CHOOSE k \in 1..Len(categoryPriorityTable) :
                                   categoryPriorityTable[k].category = category].priority
    ELSE 1

\* A POI matches the preferences when the preference filter keeps it.
MatchesPreferences(poi, prefs) == Len(FilterByPreferences(<<poi>>, prefs)) = 1

\* The order of the comparator: a preference match first, then the higher
\* category priority, then the smaller distance.
RanksBefore(a, b, prefs) ==
    IF MatchesPreferences(a, prefs) # MatchesPreferences(b, prefs)
    THEN MatchesPreferences(a, prefs)
    ELSE IF categoryPriority(a.category) # categoryPriority(b.category)
    THEN categoryPriority(a.category) > categoryPriority(b.category)
    ELSE a.distanceMeters < b.distanceMeters

\* One try block around both provider calls: a failure of the second call
\* loses what the first one pushed.
PushOverpass_oneTry(list, answer) ==
    IF answer.threw THEN <<>> ELSE list \o answer.pois

\* src/ui.js:412-426: the Overpass call in its own try block.
PushOverpass(list, answer) == list \o answer.pois

\* ------------------------------------------------------------- sorting
\* The comparator of overnightStops.sort: more accommodations first, then
\* nearer to the ideal daily distance.
ScoreBefore(a, b, ideal) ==
    IF a.accommodationScore # b.accommodationScore
    THEN a.accommodationScore > b.accommodationScore
    ELSE Abs(a.distanceFromStart - ideal) < Abs(b.distanceFromStart - ideal)

RECURSIVE InsertByScore(_, _, _)
InsertByScore(x, s, ideal) ==
    IF s = <<>> THEN <<x>>
    ELSE IF ScoreBefore(x, Head(s), ideal) THEN <<x>> \o s
    ELSE <<Head(s)>> \o InsertByScore(x, Tail(s), ideal)

\* Array.prototype.sort is stable: an element goes in front of the first
\* one it compares strictly before.
RECURSIVE SortByScore(_, _)
SortByScore(s, ideal) ==
    IF s = <<>> THEN <<>>
    ELSE InsertByScore(s[Len(s)], SortByScore(SubSeq(s, 1, Len(s) - 1), ideal), ideal)

RECURSIVE InsertByDistance(_, _)
InsertByDistance(x, s) ==
    IF s = <<>> THEN <<x>>
    ELSE IF x.distanceFromStart < Head(s).distanceFromStart THEN <<x>> \o s
    ELSE <<Head(s)>> \o InsertByDistance(x, Tail(s))

\* A selector that returns the stops in the order it picked them.
SortByDistance_unsorted(s) == s

\* selectedStops.sort((a, b) => a.distanceFromStart - b.distanceFromStart)
RECURSIVE SortByDistance(_)
SortByDistance(s) ==
    IF s = <<>> THEN <<>>
    ELSE InsertByDistance(s[Len(s)], SortByDistance(SubSeq(s, 1, Len(s) - 1)))

\* A selector that never rejects a candidate for being near a selected stop.
TooClose_never(stop, selected, ideal, tenths) == FALSE

\* selectedStops.some(selected => |selected - stop| < ideal * tenths / 10)
TooClose(stop, selected, ideal, tenths) ==
    \E i \in 1..Len(selected) :
        10 * Abs(selected[i].distanceFromStart - stop.distanceFromStart) < tenths * ideal

\* Array.prototype.find / filter(...)[0] over a sequence of test results:
\* the first index whose test holds, 0 when there is none.
RECURSIVE FirstIndex(_, _)
FirstIndex(flags, i) ==
    IF i > Len(flags) THEN 0
    ELSE IF flags[i] THEN i
    ELSE FirstIndex(flags, i + 1)

\* ------------------------------------- selectOvernightStops, src/ui.js:655
\* score = distanceFromTarget / ideal - accommodationScore * 0.1, times 10 * ideal
Score_ui(stop, target, ideal) ==
    10 * Abs(stop.distanceFromStart - target) - stop.accommodationScore * ideal

\* The inner loop over the sorted candidates: the index of bestStop, 0 for null.
RECURSIVE BestStop_ui(_, _, _, _, _, _)
BestStop_ui(sorted, selected, ideal, target, i, best) ==
    IF i > Len(sorted) THEN best
    ELSE IF 2 * Abs(sorted[i].distanceFromStart - target) > ideal
         THEN BestStop_ui(sorted, selected, ideal, target, i + 1, best)
    ELSE IF TooClose(sorted[i], selected, ideal, 3)
         THEN BestStop_ui(sorted, selected, ideal, target, i + 1, best)
    ELSE IF best = 0 \/ Score_ui(sorted[i], target, ideal) < Score_ui(sorted[best], target, ideal)
         THEN BestStop_ui(sorted, selected, ideal, target, i + 1, i)
    ELSE BestStop_ui(sorted, selected, ideal, target, i + 1, best)

RECURSIVE SelectLoop_ui(_, _, _, _, _)
SelectLoop_ui(sorted, ideal, nDays, day, selected) ==
    IF day >= nDays THEN selected
    ELSE LET best == BestStop_ui(sorted, selected, ideal, ideal * day, 1, 0)
         IN  SelectLoop_ui(sorted, ideal, nDays, day + 1,
                 IF best # 0 THEN Append(selected, sorted[best]) ELSE selected)

selectOvernightStops_ui(cands, ideal, nDays) ==
    SelectLoop_ui(SortByScore(cands, ideal), ideal, nDays, 1, <<>>)

\* --------------- selectOvernightStops, src/utils.js:952 and src/utils.js:2247
\* One pass of the day loop of the two drafts with a fallback branch: the
\* first sorted candidate within the tolerance and not too close to a
\* selected stop, else the first sorted candidate not too close to one.
NextPick(sorted, selected, ideal, target, tolTenths, closeTenths) ==
    LET inTol == [i \in 1..Len(sorted) |->
                    /\ 10 * Abs(sorted[i].distanceFromStart - target) <= tolTenths * ideal
                    /\ ~TooClose(sorted[i], selected, ideal, closeTenths)]
        free  == [i \in 1..Len(sorted) |-> ~TooClose(sorted[i], selected, ideal, closeTenths)]
    IN  IF FirstIndex(inTol, 1) # 0 THEN FirstIndex(inTol, 1) ELSE FirstIndex(free, 1)

RECURSIVE SelectLoop_fb(_, _, _, _, _, _, _)
SelectLoop_fb(sorted, ideal, nDays, day, selected, tolTenths, closeTenths) ==
    IF day >= nDays THEN selected
    ELSE LET pick == NextPick(sorted, selected, ideal, ideal * day, tolTenths, closeTenths)
         IN  SelectLoop_fb(sorted, ideal, nDays, day + 1,
                 IF pick # 0 THEN Append(selected, sorted[pick]) ELSE selected,
                 tolTenths, closeTenths)

\* src/utils.js:952: tolerance 0.5, spacing 0.3, result sorted by distance.
selectOvernightStops_u952(cands, ideal, nDays) ==
    IF Len(cands) = 0 THEN <<>>
    ELSE SortByDistance(SelectLoop_fb(SortByScore(cands, ideal), ideal, nDays, 1, <<>>, 5, 3))

\* src/utils.js:2247: tolerance 0.4, spacing 0.2, result sorted by distance.
selectOvernightStops_u2247(cands, ideal, nDays) ==
    SortByDistance(SelectLoop_fb(SortByScore(cands, ideal), ideal, nDays, 1, <<>>, 4, 2))

\* ------------------------------------ findClosestPointOnRoute, src/utils.js:80
\* The first segment whose end lies at or beyond the target distance, the
\* point interpolated on it; NULL when the polyline is shorter than the target.
\* A zero-length segment gives ratio 0/0: the coordinate is NaN (nan = TRUE).
RECURSIVE ClosestFrom(_, _, _, _)
ClosestFrom(coords, target, i, currentDistance) ==
    IF i > Len(coords) - 1 THEN NULL
    ELSE LET segmentDistance == calculateDistance(coords[i], coords[i + 1])
         IN  IF currentDistance + segmentDistance >= target
             THEN [null |-> FALSE,
                   nan |-> segmentDistance = 0,
                   lon |-> IF coords[i + 1] >= coords[i]
                           THEN coords[i] + (target - currentDistance)
                           ELSE coords[i] - (target - currentDistance),
                   distanceFromStart |-> target]
             ELSE ClosestFrom(coords, target, i + 1, currentDistance + segmentDistance)

findClosestPointOnRoute(coords, target) == ClosestFrom(coords, target, 1, 0)

\* ------------------------------- createSmartItinerary, src/utils.js:834
\* src/config.js:35 ACTIVITY_TIME_ESTIMATES, in tenths of an hour. The
\* category of an attraction is looked up as a whole, so it is one string here.
ACTIVITY_TIME_ESTIMATES ==
    ("Museum" :> 25) @@
    ("Zoo/Aquarium" :> 30) @@
    ("Park" :> 15) @@
    ("Historic Site" :> 15) @@
    ("Restaurant" :> 10) @@
    ("Scenic View" :> 5) @@
    ("Entertainment" :> 20) @@
    ("Outdoor Activity" :> 20) @@
    ("Cultural Site" :> 20) @@
    ("Food & Drink" :> 10) @@
    ("Family Activity" :> 20) @@
    ("Adventure" :> 30) @@
    ("Attraction" :> 15)

\* ACTIVITY_TIME_ESTIMATES[attraction.category] || 1
ActivityTime(category) ==
    IF category \in DOMAIN ACTIVITY_TIME_ESTIMATES
    THEN ACTIVITY_TIME_ESTIMATES[category] ELSE 10

RECURSIVE SumSeq(_)
SumSeq(numbers) == IF numbers = <<>> THEN 0 ELSE Head(numbers) + SumSeq(Tail(numbers))

\* src/utils.js:917-921: the two nested reduce calls.
totalActivityTime(list) ==
    SumSeq([k \in 1..Len(list) |->
               SumSeq([a \in 1..Len(list[k].attractions) |->
                          ActivityTime(list[k].attractions[a].category)])])

RoadsideStop(dist, attractions) ==
    [distanceFromStart |-> dist, type |-> "roadside",
     attractions |-> [k \in 1..Len(attractions) |-> [category |-> attractions[k]]]]

\* src/utils.js:902-904: the roadside stops of the day's stretch, cut to
\* config.maxRoadsideStops.
dayRoadsideStops(list, dayNo, ideal, config) ==
    LET InDay(stop) == /\ stop.distanceFromStart >= (dayNo - 1) * ideal
                       /\ stop.distanceFromStart <= dayNo * ideal
    IN  Slice(SelectSeq(list, InDay), config.maxRoadsideStops)

\* A budget check that never cuts the list.
feasibleRoadsideStops_uncut(list, config) == list

\* src/utils.js:924-927: over maxDailyDrivingHours * 0.6 hours of activity
\* the list is cut to floor(maxRoadsideStops * 0.7) stops.
feasibleRoadsideStops(list, config) ==
    IF totalActivityTime(list) <= config.maxDailyDrivingHours * 6
    THEN list
    ELSE Slice(list, (config.maxRoadsideStops * 7) \div 10)

\* src/utils.js:897-899: the first selected stop of the day's stretch, or
\* the one at index day - 1, or undefined.
overnightStopOfDay(selected, dayNo, ideal) ==
    LET InDay(k) == /\ selected[k].distanceFromStart >= (dayNo - 1) * ideal
                    /\ selected[k].distanceFromStart <= dayNo * ideal
    IN  IF \E k \in 1..Len(selected) : InDay(k)
        THEN selected[CHOOSE k \in 1..Len(selected) :
                          InDay(k) /\ \A j \in 1..(k - 1) : ~InDay(j)]
        ELSE IF dayNo <= Len(selected) THEN selected[dayNo]
        ELSE NULL

\* src/utils.js:930-932
dayDrivingDistance(selected, overnightStop, dayNo, ideal) ==
    IF overnightStop = NULL THEN ideal
    ELSE IF dayNo = 1 THEN overnightStop.distanceFromStart
    ELSE overnightStop.distanceFromStart -
            (IF dayNo - 1 <= Len(selected)
             THEN selected[dayNo - 1].distanceFromStart ELSE 0)

\* src/utils.js:934-942: the entry pushed for a day of the day loop.
DayPlan(selected, list, dayNo, ideal, config, food) ==
    LET overnightStop == overnightStopOfDay(selected, dayNo, ideal)
        dayStops == dayRoadsideStops(list, dayNo, ideal, config)
    IN  [day |-> dayNo,
         overnightStop |-> overnightStop,
         roadsideStops |-> feasibleRoadsideStops(dayStops, config),
         foodOptions |-> IF overnightStop = NULL THEN <<>> ELSE food,
         totalActivityTime |-> totalActivityTime(dayStops),
         drivingTime |-> config.maxDailyDrivingHours,
         drivingDistance |-> dayDrivingDistance(selected, overnightStop, dayNo, ideal)]

\* src/utils.js:863-871: the entry pushed for a basic stop.
BasicDayPlan(basicStop, dayNo, ideal) ==
    [day |-> dayNo,
     overnightStop |-> basicStop,
     roadsideStops |-> <<>>,
     foodOptions |-> <<>>,
     totalActivityTime |-> 20,
     drivingTime |-> 6,
     drivingDistance |-> ideal]

\* ---------------------------------------------------------------- inputs
\* Strictly ascending positions, as the samplers walk the route.
Ascending(p) ==
    \A a \in DOMAIN p : \A b \in DOMAIN p : a < b => p[a] < p[b]

Reverse(s) == [k \in 1..Len(s) |-> s[Len(s) + 1 - k]]

\* The candidate list with positions p and accommodation counts sc.
Candidates(p, sc) ==
    [k \in DOMAIN p |-> Stop(p[k], sc[k], "overnight", "candidate")]

\* Polylines handed in with the route: the two end points, one with a
\* vertex in between, and one whose length falls short of route.distance.
RouteGeometries(dist) ==
    { <<0, dist>>, <<0, dist \div 2, dist>>, <<0, dist \div 2>> }

idealDailyDistance == totalDistance \div days

\* ----------------------------------------------------------- SpecSelect
InitSelect ==
    /\ pc = "input"
    /\ days \in 1..MaxDays
    /\ totalDistance = days * IdealUnits
    /\ \E n \in 0..MaxCands : \E p \in [1..n -> 0..totalDistance] :
           /\ Ascending(p)
           /\ \E sc \in [1..n -> 1..MaxScore] :
                  \/ overnightStops = Candidates(p, sc)
                  \/ overnightStops = Reverse(Candidates(p, sc))
    /\ coordinates = <<>>
    /\ impl = "none"
    /\ stops = <<>>
    /\ d = 0
    /\ pace = "balanced"
    /\ sample = 0
    /\ IdleDedup
    /\ IdlePoi
    /\ IdleAssemble
    /\ IdleRoute
    /\ IdleRate
    /\ IdleGather
    /\ IdleScout
    /\ IdleProgress
    /\ IdleRequest
    /\ IdlePreset
    /\ IdleButton
    /\ IdleAuto

\* selectOvernightStops called on the candidates; sort() reorders the
\* caller's array in place.
Select_ui ==
    /\ pc = "input"
    /\ pc' = "selected"
    /\ impl' = "ui"
    /\ overnightStops' = SortByScore(overnightStops, idealDailyDistance)
    /\ stops' = selectOvernightStops_ui(overnightStops, idealDailyDistance, days)
    /\ UNCHANGED <<totalDistance, days, coordinates, d, pace, sample, dedupVars, poiVars, asmVars, routeVars, rateVars, gatherVars, scoutVars, progressVars, requestVars, presetVars, buttonVars, autoVars>>

Select_u952 ==
    /\ pc = "input"
    /\ pc' = "selected"
    /\ impl' = "u952"
    /\ overnightStops' = SortByScore(overnightStops, idealDailyDistance)
    /\ stops' = selectOvernightStops_u952(overnightStops, idealDailyDistance, days)
    /\ UNCHANGED <<totalDistance, days, coordinates, d, pace, sample, dedupVars, poiVars, asmVars, routeVars, rateVars, gatherVars, scoutVars, progressVars, requestVars, presetVars, buttonVars, autoVars>>

Select_u2247 ==
    /\ pc = "input"
    /\ pc' = "selected"
    /\ impl' = "u2247"
    /\ overnightStops' = SortByScore(overnightStops, idealDailyDistance)
    /\ stops' = selectOvernightStops_u2247(overnightStops, idealDailyDistance, days)
    /\ UNCHANGED <<totalDistance, days, coordinates, d, pace, sample, dedupVars, poiVars, asmVars, routeVars, rateVars, gatherVars, scoutVars, progressVars, requestVars, presetVars, buttonVars, autoVars>>

\* createSmartItinerary, src/ui.js:767: the selection is returned as it is.
CreateSmartItinerary_ui ==
    /\ pc = "input"
    /\ pc' = "returned"
    /\ impl' = "itinerary_ui"
    /\ overnightStops' = SortByScore(overnightStops, idealDailyDistance)
    /\ stops' = selectOvernightStops_ui(overnightStops, idealDailyDistance, days)
    /\ UNCHANGED <<totalDistance, days, coordinates, d, pace, sample, dedupVars, poiVars, asmVars, routeVars, rateVars, gatherVars, scoutVars, progressVars, requestVars, presetVars, buttonVars, autoVars>>

\* createSmartItinerary, src/utils.js:2298, up to its first await.
CreateSmartItinerary_u2298 ==
    /\ pc = "input"
    /\ \E c \in RouteGeometries(totalDistance) : coordinates' = c
    /\ impl' = "itinerary_u2298"
    /\ overnightStops' = SortByScore(overnightStops, idealDailyDistance)
    /\ LET selectedOvernightStops ==
               selectOvernightStops_u2247(overnightStops, idealDailyDistance, days)
       IN  IF Len(selectedOvernightStops) = 0
           THEN /\ pc' = "basic"
                /\ d' = 1
                /\ stops' = <<>>
           ELSE /\ pc' = "returned"
                /\ d' = d
                /\ stops' = selectedOvernightStops
    /\ UNCHANGED <<totalDistance, days, pace, sample, dedupVars, poiVars, asmVars, routeVars, rateVars, gatherVars, scoutVars, progressVars, requestVars, presetVars, buttonVars, autoVars>>

\* One turn of the basic-stop loop: the point at ideal * d, reverse-geocoded
\* (the geocoder answers or returns null), pushed as a 'basic' stop.
BasicStop_u2298 ==
    /\ pc = "basic"
    /\ d < days
    /\ LET closestPoint == findClosestPointOnRoute(coordinates, idealDailyDistance * d)
       IN  IF closestPoint.null
           THEN stops' = stops
           ELSE \E locationInfo \in {"place", "null"} :
                    stops' = Append(stops,
                        Stop(closestPoint.distanceFromStart, 0, "basic",
                             IF locationInfo = "null" THEN "Stop d" ELSE locationInfo))
    /\ d' = d + 1
    /\ UNCHANGED <<pc, totalDistance, days, overnightStops, coordinates, impl, pace, sample, dedupVars, poiVars, asmVars, routeVars, rateVars, gatherVars, scoutVars, progressVars, requestVars, presetVars, buttonVars, autoVars>>

BasicReturn_u2298 ==
    /\ pc = "basic"
    /\ d >= days
    /\ pc' = "returned"
    /\ UNCHANGED <<totalDistance, days, overnightStops, coordinates, impl, stops, d, pace, sample, dedupVars, poiVars, asmVars, routeVars, rateVars, gatherVars, scoutVars, progressVars, requestVars, presetVars, buttonVars, autoVars>>

\* ----------------------------------------------------------- SpecSample
\* findOvernightStops of src/ui.js:509 followed by the selection, on a route
\* of 1000 km. Distances are in sixths of a kilometre, so that the sample
\* targets (totalDistance / maxSamples) * i are whole numbers.
ScenarioDistance == 1000 * 6

maxSamples == Min(TRIP_PACE_CONFIG[pace].maxRoadsideStops * 2, 6)

InitSample ==
    /\ pc = "sampling"
    /\ days \in 1..MaxDays
    /\ totalDistance = ScenarioDistance
    /\ overnightStops = <<>>
    /\ coordinates \in {<<0, ScenarioDistance>>, <<0, ScenarioDistance \div 2, ScenarioDistance>>}
    /\ impl = "none"
    /\ stops = <<>>
    /\ d = 0
    /\ pace \in PaceNames
    /\ sample = 0
    /\ IdleDedup
    /\ IdlePoi
    /\ IdleAssemble
    /\ IdleRoute
    /\ IdleRate
    /\ IdleGather
    /\ IdleScout
    /\ IdleProgress
    /\ IdleRequest
    /\ IdlePreset
    /\ IdleButton
    /\ IdleAuto

\* One turn of the sampling loop: findNearbyAccommodations always returns
\* lodging (what Overpass found, cut to 5, or the three fallback entries),
\* reverseGeocode answers or returns null, and the stop is pushed.
FindOvernightStops_step ==
    /\ pc = "sampling"
    /\ sample < maxSamples
    /\ LET targetDistance == (totalDistance \div maxSamples) * sample
           closestPoint == findClosestPointOnRoute(coordinates, targetDistance)
       IN  IF closestPoint.null
           THEN overnightStops' = overnightStops
           ELSE \E accommodations \in 1..MaxScore : \E locationInfo \in {"place", "null"} :
                    overnightStops' = Append(overnightStops,
                        Stop(closestPoint.distanceFromStart, accommodations, "overnight",
                             IF locationInfo = "null" THEN "Accommodation Stop i"
                             ELSE locationInfo))
    /\ sample' = sample + 1
    /\ UNCHANGED <<pc, totalDistance, days, coordinates, impl, stops, d, pace, dedupVars, poiVars, asmVars, routeVars, rateVars, gatherVars, scoutVars, progressVars, requestVars, presetVars, buttonVars, autoVars>>

FindOvernightStops_return ==
    /\ pc = "sampling"
    /\ sample >= maxSamples
    /\ pc' = "input"
    /\ UNCHANGED <<totalDistance, days, overnightStops, coordinates, impl, stops, d, pace, sample, dedupVars, poiVars, asmVars, routeVars, rateVars, gatherVars, scoutVars, progressVars, requestVars, presetVars, buttonVars, autoVars>>

NextSample ==
    \/ FindOvernightStops_step
    \/ FindOvernightStops_return
    \/ CreateSmartItinerary_ui

SpecSample == InitSample /\ [][NextSample]_vars

NextSelect ==
    \/ Select_ui
    \/ Select_u952
    \/ Select_u2247
    \/ CreateSmartItinerary_ui
    \/ CreateSmartItinerary_u2298
    \/ BasicStop_u2298
    \/ BasicReturn_u2298

SpecSelect == InitSelect /\ [][NextSelect]_vars

\* ------------------------------------------------------------ SpecDedup
\* removeDuplicatePois applied to every list of at most MaxPois POIs whose
\* titles are the strings of at most MaxTitleLen characters over a small
\* letter, its capital and the blank, or one of a few place names.
TitleChars == {"a", "A", " "}

PlaceNames ==
    { <<"C", "i", "t", "y", " ", "M", "u", "s", "e", "u", "m">>,
      <<"c", "i", "t", "y", " ", "m", "u", "s", "e", "u", "m", " ">>,
      <<" ", "C", "I", "T", "Y", " ", "M", "U", "S", "E", "U", "M">>,
      <<"C", "i", "t", "y", " ", " ", "M", "u", "s", "e", "u", "m">>,
      <<"C", "i", "t", "y", " ", "P", "a", "r", "k">> }

Titles == PlaceNames \cup UNION {[1..n -> TitleChars] : n \in 0..MaxTitleLen}

\* The k-th POI of an input list: the url tells the elements apart, the
\* sources alternate between the two providers.
Poi(title, k) ==
    [title |-> title, url |-> k,
     source |-> IF k % 2 = 1 THEN "wikipedia" ELSE "overpass"]

InitDedup ==
    /\ pc = "input"
    /\ \E n \in 0..MaxPois : \E t \in [1..n -> Titles] :
           dedupInput = [k \in 1..n |-> Poi(t[k], k)]
    /\ dedupOutput = <<>>
    /\ impl = "none"
    /\ IdleSelect
    /\ IdlePoi
    /\ IdleAssemble
    /\ IdleRoute
    /\ IdleRate
    /\ IdleGather
    /\ IdleScout
    /\ IdleProgress
    /\ IdleRequest
    /\ IdlePreset
    /\ IdleButton
    /\ IdleAuto

RemoveDuplicatePois_u32 ==
    /\ pc = "input"
    /\ pc' = "deduplicated"
    /\ impl' = "u32"
    /\ dedupOutput' = removeDuplicatePois(dedupInput)
    /\ UNCHANGED <<dedupInput, totalDistance, days, overnightStops, coordinates, stops, d, pace, sample, poiVars, asmVars, routeVars, rateVars, gatherVars, scoutVars, progressVars, requestVars, presetVars, buttonVars, autoVars>>

RemoveDuplicatePois_u2596 ==
    /\ pc = "input"
    /\ pc' = "deduplicated"
    /\ impl' = "u2596"
    /\ dedupOutput' = removeDuplicatePois_u2596(dedupInput)
    /\ UNCHANGED <<dedupInput, totalDistance, days, overnightStops, coordinates, stops, d, pace, sample, poiVars, asmVars, routeVars, rateVars, gatherVars, scoutVars, progressVars, requestVars, presetVars, buttonVars, autoVars>>

NextDedup ==
    \/ RemoveDuplicatePois_u32
    \/ RemoveDuplicatePois_u2596

SpecDedup == InitDedup /\ [][NextDedup]_vars

\* -------------------------------------------------------------- SpecPoi
\* One call of fetchPoisSimple (src/ui.js:387, the same code at
\* src/utils.js:2514) against providers that answer or fail. The callers pass
\* config.poiRadius (ui.js:732), 16000 (config.js:225) or 20000
\* (utils.js:806) as the radius, and 3, 4 or config.maxPoisPerStop as the limit.
CallerRadii ==
    {TRIP_PACE_CONFIG[p].poiRadius : p \in PaceNames} \cup {targetRadius, 20000}

CallerLimits == {TRIP_PACE_CONFIG[p].maxPoisPerStop : p \in PaceNames} \cup {3, 4}

CallerPreferences ==
    { <<>>, <<"outdoor">>, <<"cultural">>, <<"adventure">>,
      <<"family", "entertainment">>, <<"food", "outdoor">>, <<"nightlife">> }

\* What the geosearch of Wikipedia may answer: items with title and dist.
WikiItem(title, dist) == [title |-> title, dist |-> dist]

WikipediaAnswers ==
    { <<>>,
      <<WikiItem(<<"C", "i", "t", "y", " ", "M", "u", "s", "e", "u", "m">>, 2)>>,
      <<WikiItem(<<"M", "a", "i", "n", " ", "S", "t", "r", "e", "e", "t", " ", "S", "t", "a", "t", "i", "o", "n">>, 1)>>,
      <<WikiItem(<<"L", "a", "k", "e", " ", "P", "a", "r", "k">>, 3), WikiItem(<<"C", "i", "t", "y", " ", "M", "u", "s", "e", "u", "m">>, 2)>> }

\* What Overpass may answer: elements with tags and a position.
Element(name, tourism, amenity, pos) ==
    [tags |-> [name |-> name, tourism |-> tourism, amenity |-> amenity], pos |-> pos]

OverpassAnswers ==
    { <<>>,
      <<Element(<<"c", "i", "t", "y", " ", "m", "u", "s", "e", "u", "m", " ">>, <<"m", "u", "s", "e", "u", "m">>, NULL, 2500)>>,
      <<Element(<<"Z", "o", "o">>, <<"z", "o", "o">>, NULL, 4000),
        Element(NULL, NULL, <<"c", "a", "f", "e">>, 700)>>,
      <<Element(<<"c", "i", "t", "y", " ", "m", "u", "s", "e", "u", "m", " ">>, <<"m", "u", "s", "e", "u", "m">>, NULL, 2500),
        Element(NULL, NULL, NULL, 100),
        Element(<<"Z", "o", "o">>, <<"z", "o", "o">>, NULL, 4000)>>,
      <<Element(NULL, NULL, NULL, 100),
        Element(<<"Z", "o", "o">>, <<"z", "o", "o">>, NULL, 4000),
        Element(NULL, NULL, <<"c", "a", "f", "e">>, 700),
        Element(<<"O", "l", "d", " ", "C", "a", "s", "t", "l", "e">>, NULL, NULL, 900)>> }

\* found: the POIs the provider had for the query; pois: the ones its call
\* gave back to fetchPoisSimple.
Answer(provider, threw, found, list) ==
    [provider |-> provider, radius |-> searchRadii[searchIndex],
     threw |-> threw, found |-> found, pois |-> list]

InitPoi ==
    /\ pc = "wikipedia"
    /\ impl = "fetchPoisSimple"
    /\ radiusMeters \in CallerRadii
    /\ limit \in CallerLimits
    /\ preferences \in CallerPreferences
    /\ searchIndex = 1
    /\ poisFetched = <<>>
    /\ queryLog = <<>>
    /\ answers = <<>>
    /\ result = <<>>
    /\ IdleSelect
    /\ IdleDedup
    /\ IdleAssemble
    /\ IdleRoute
    /\ IdleRate
    /\ IdleGather
    /\ IdleScout
    /\ IdleProgress
    /\ IdleRequest
    /\ IdlePreset
    /\ IdleButton
    /\ IdleAuto

\* src/ui.js:398-410: the Wikipedia call of a loop turn, in its try block.
FetchWikipedia ==
    /\ pc = "wikipedia"
    /\ \E threw \in BOOLEAN : \E items \in WikipediaAnswers :
           LET answer == Answer("wikipedia", threw,
                                fetchWikipediaAttractions(items),
                                IF threw THEN <<>> ELSE fetchWikipediaAttractions(items))
           IN  /\ threw => items = <<>>
               /\ Len(items) <= limit
               /\ answers' = Append(answers, answer)
               /\ poisFetched' = poisFetched \o answer.pois
    /\ queryLog' = Append(queryLog, [provider |-> "wikipedia", radius |-> searchRadii[searchIndex]])
    /\ pc' = "overpass"
    /\ UNCHANGED <<impl, radiusMeters, limit, preferences, searchIndex, result>>
    /\ UNCHANGED <<totalDistance, days, overnightStops, coordinates, stops, d, pace, sample, dedupVars, asmVars, routeVars, rateVars, gatherVars, scoutVars, progressVars, requestVars, presetVars, buttonVars, autoVars>>

\* src/ui.js:412-468: the Overpass call of a loop turn, the test that ends
\* the loop and, when the loop is over, the rest of the function.
FetchOverpass ==
    /\ pc = "overpass"
    /\ \E threw \in BOOLEAN : \E elements \in OverpassAnswers :
           LET answer == Answer("overpass", threw,
                                fetchOverpassAttractions(elements, Len(elements)),
                                IF threw THEN <<>> ELSE fetchOverpassAttractions(elements, limit))
               pois == PushOverpass(poisFetched, answer)
           IN  /\ threw => elements = <<>>
               /\ answers' = Append(answers, answer)
               /\ IF Len(pois) > 0 \/ searchIndex = Len(searchRadii)
                  THEN /\ poisFetched' = WithGeneric(pois)
                       /\ result' = ReturnedPois(pois, preferences, limit)
                       /\ pc' = "done"
                       /\ UNCHANGED searchIndex
                  ELSE /\ poisFetched' = pois
                       /\ searchIndex' = searchIndex + 1
                       /\ pc' = "wikipedia"
                       /\ UNCHANGED result
    /\ queryLog' = Append(queryLog, [provider |-> "overpass", radius |-> searchRadii[searchIndex]])
    /\ UNCHANGED <<impl, radiusMeters, limit, preferences>>
    /\ UNCHANGED <<totalDistance, days, overnightStops, coordinates, stops, d, pace, sample, dedupVars, asmVars, routeVars, rateVars, gatherVars, scoutVars, progressVars, requestVars, presetVars, buttonVars, autoVars>>

NextPoi ==
    \/ FetchWikipedia
    \/ FetchOverpass

SpecPoi == InitPoi /\ [][NextPoi]_vars

\* --------------------------------------------------------- SpecAssemble
\* createSmartItinerary of src/utils.js:834 (with the selector of
\* src/utils.js:952) and of src/ui.js:767, on overnight candidates at or
\* next to the day boundaries and roadside stops along the first two days.
RoadsidePositions ==
    {1, IdealUnits \div 2, IdealUnits, IdealUnits + 1} \cap 0..totalDistance

AttractionLists ==
    { <<"Museum">>, <<"Park">>, <<"Casino">>, <<"Zoo/Aquarium", "Museum">> }

\* Candidates at or just behind the day boundaries, and pairs of candidates
\* from the start, the second boundary, a point behind it and the route's end.
LatePositions ==
    {0, 2 * idealDailyDistance, 2 * idealDailyDistance + 2, totalDistance} \cap 0..totalDistance

OvernightOptions ==
    { Candidates([k \in 1..n |-> idealDailyDistance * k + off], [k \in 1..n |-> 1]) :
          n \in 0..(days - 1), off \in {0, 1} }
    \cup { Candidates(<<pair[1], pair[2]>>, <<1, 1>>) :
               pair \in {q \in LatePositions \X LatePositions : q[1] < q[2]} }

InitAssemble ==
    /\ pc = "input"
    /\ impl = "none"
    /\ days \in 1..MaxDays
    /\ totalDistance = days * IdealUnits
    /\ pace \in PaceNames
    /\ overnightStops \in OvernightOptions
    /\ coordinates \in RouteGeometries(totalDistance)
    \* the polyline is read in the basic branch only
    /\ (Len(overnightStops) > 0 /\ days > 1) => coordinates = <<0, totalDistance>>
    /\ \E n \in 0..MaxRoadside : \E p \in [1..n -> RoadsidePositions] :
           /\ Ascending(p)
           /\ \E a \in [1..n -> AttractionLists] :
                  roadsideStops = [k \in 1..n |-> RoadsideStop(p[k], a[k])]
    /\ itineraryDays = <<>>
    /\ planDay = 0
    /\ stops = <<>>
    /\ d = 0
    /\ sample = 0
    /\ IdleDedup
    /\ IdlePoi
    /\ IdleRoute
    /\ IdleRate
    /\ IdleGather
    /\ IdleScout
    /\ IdleProgress
    /\ IdleRequest
    /\ IdlePreset
    /\ IdleButton
    /\ IdleAuto

\* src/utils.js:834-847 and 884: the selection and the branch taken.
CreateSmartItinerary_u834 ==
    /\ pc = "input"
    /\ overnightStops' = SortByScore(overnightStops, idealDailyDistance)
    /\ LET selectedOvernightStops ==
               selectOvernightStops_u952(overnightStops, idealDailyDistance, days)
       IN  IF Len(selectedOvernightStops) = 0
           THEN /\ pc' = "basic_u834"
                /\ impl' = "basic_u834"
                /\ d' = 1
                /\ stops' = <<>>
                /\ UNCHANGED planDay
           ELSE /\ pc' = "planning"
                /\ impl' = "days_u834"
                /\ planDay' = 1
                /\ stops' = selectedOvernightStops
                /\ UNCHANGED d
    /\ UNCHANGED <<totalDistance, days, coordinates, pace, sample, roadsideStops, itineraryDays, dedupVars, poiVars, routeVars, rateVars, gatherVars, scoutVars, progressVars, requestVars, presetVars, buttonVars, autoVars>>

\* src/utils.js:849-873: one turn of the basic-stop loop.
BasicStop_u834 ==
    /\ pc = "basic_u834"
    /\ d < days
    /\ LET closestPoint == findClosestPointOnRoute(coordinates, idealDailyDistance * d)
       IN  IF closestPoint.null
           THEN UNCHANGED <<stops, itineraryDays>>
           ELSE \E locationInfo \in {"place", "null"} :
                    LET basicStop == Stop(closestPoint.distanceFromStart, 0, "basic",
                                          IF locationInfo = "null" THEN "Stop d" ELSE locationInfo)
                    IN  /\ stops' = Append(stops, basicStop)
                        /\ itineraryDays' = Append(itineraryDays,
                                                BasicDayPlan(basicStop, d, idealDailyDistance))
    /\ d' = d + 1
    /\ UNCHANGED <<pc, impl, totalDistance, days, overnightStops, coordinates, pace, sample, roadsideStops, planDay, dedupVars, poiVars, routeVars, rateVars, gatherVars, scoutVars, progressVars, requestVars, presetVars, buttonVars, autoVars>>

\* src/utils.js:874-880
BasicReturn_u834 ==
    /\ pc = "basic_u834"
    /\ d >= days
    /\ pc' = "returned"
    /\ UNCHANGED <<impl, totalDistance, days, overnightStops, coordinates, stops, d, pace, sample, dedupVars, poiVars, asmVars, routeVars, rateVars, gatherVars, scoutVars, progressVars, requestVars, presetVars, buttonVars, autoVars>>

\* src/utils.js:886-943: one turn of the day loop; fetchRestaurants answers,
\* answers nothing or throws.
PlanDay_u834 ==
    /\ pc = "planning"
    /\ planDay <= days
    /\ \E food \in {<<>>, <<"restaurant">>} :
           itineraryDays' = Append(itineraryDays,
               DayPlan(stops, roadsideStops, planDay, idealDailyDistance,
                       TRIP_PACE_CONFIG[pace], food))
    /\ planDay' = planDay + 1
    /\ UNCHANGED <<pc, impl, totalDistance, days, overnightStops, coordinates, stops, d, pace, sample, roadsideStops, dedupVars, poiVars, routeVars, rateVars, gatherVars, scoutVars, progressVars, requestVars, presetVars, buttonVars, autoVars>>

\* src/utils.js:945-949
Return_u834 ==
    /\ pc = "planning"
    /\ planDay > days
    /\ pc' = "returned"
    /\ UNCHANGED <<impl, totalDistance, days, overnightStops, coordinates, stops, d, pace, sample, dedupVars, poiVars, asmVars, routeVars, rateVars, gatherVars, scoutVars, progressVars, requestVars, presetVars, buttonVars, autoVars>>

NextAssemble ==
    \/ CreateSmartItinerary_u834
    \/ BasicStop_u834
    \/ BasicReturn_u834
    \/ PlanDay_u834
    \/ Return_u834
    \/ CreateSmartItinerary_ui

SpecAssemble == InitAssemble /\ [][NextAssemble]_vars

\* ----------------------------------------------------------- SpecClosest
\* findClosestPointOnRoute (src/utils.js:80; the draft of src/utils.js:668
\* computes the same point and adds the segment index) on polylines of two
\* or three vertices and targets up to one unit past the longest of them.
Polylines == UNION {[1..n -> 0..MaxCoord] : n \in 2..3}

RECURSIVE PolylineLength(_)
PolylineLength(coords) ==
    IF Len(coords) < 2 THEN 0
    ELSE calculateDistance(coords[1], coords[2]) + PolylineLength(Tail(coords))

InitClosest ==
    /\ pc = "input"
    /\ impl = "none"
    /\ coordinates \in Polylines
    /\ routeTarget \in 0..(2 * MaxCoord + 1)
    /\ routePoint = NULL
    /\ totalDistance = 0
    /\ days = 1
    /\ overnightStops = <<>>
    /\ stops = <<>>
    /\ d = 0
    /\ pace = "balanced"
    /\ sample = 0
    /\ IdleDedup
    /\ IdlePoi
    /\ IdleAssemble
    /\ IdleRate
    /\ IdleGather
    /\ IdleScout
    /\ IdleProgress
    /\ IdleRequest
    /\ IdlePreset
    /\ IdleButton
    /\ IdleAuto

FindClosestPointOnRoute ==
    /\ pc = "input"
    /\ pc' = "found"
    /\ impl' = "findClosestPointOnRoute"
    /\ routePoint' = findClosestPointOnRoute(coordinates, routeTarget)
    /\ UNCHANGED <<totalDistance, days, overnightStops, coordinates, stops, d, pace, sample, routeTarget, dedupVars, poiVars, asmVars, rateVars, gatherVars, scoutVars, progressVars, requestVars, presetVars, buttonVars, autoVars>>

NextClosest == FindClosestPointOnRoute

SpecClosest == InitClosest /\ [][NextClosest]_vars

\* ---------------------------------------------------------- SpecOverpass
\* executeOverpassQuery (src/unnamed/part_000:1961) called by MaxCallers
\* callers that run concurrently, as the per-stop calls under the
\* Promise.all of planTrip (src/config.js:222) do. The clock moves in steps
\* of half the minimum delay; a timer fires at its due time or later.
OVERPASS_MIN_DELAY == 2000

Tick == OVERPASS_MIN_DELAY \div 2

\* Date.now() at the first call: lastOverpassRequest = 0 lies far back.
StartTime == OVERPASS_MIN_DELAY

Callers == 1..MaxCallers

InitOverpass ==
    /\ pc = "running"
    /\ impl = "executeOverpassQuery"
    /\ now = StartTime
    /\ lastOverpassRequest = 0
    /\ callerPc = [c \in Callers |-> "idle"]
    /\ wakeAt = [c \in Callers |-> 0]
    /\ callsMade = [c \in Callers |-> 0]
    /\ requestTimes = <<>>
    /\ IdleSelect
    /\ IdleDedup
    /\ IdlePoi
    /\ IdleAssemble
    /\ IdleRoute
    /\ IdleGather
    /\ IdleScout
    /\ IdleProgress
    /\ IdleRequest
    /\ IdlePreset
    /\ IdleButton
    /\ IdleAuto

\* src/unnamed/part_000:1964-1978: the test of the time since the last
\* request, then either the timer or, in the same turn, the call of fetch.
ExecuteOverpassQuery(c) ==
    /\ callerPc[c] = "idle"
    /\ callsMade[c] < MaxCalls
    /\ callsMade' = [callsMade EXCEPT ![c] = @ + 1]
    /\ LET timeSinceLastRequest == now - lastOverpassRequest
       IN  IF timeSinceLastRequest < OVERPASS_MIN_DELAY
           THEN /\ callerPc' = [callerPc EXCEPT ![c] = "waiting"]
                /\ wakeAt' = [wakeAt EXCEPT ![c] = now + (OVERPASS_MIN_DELAY - timeSinceLastRequest)]
                /\ UNCHANGED requestTimes
           ELSE /\ callerPc' = [callerPc EXCEPT ![c] = "fetching"]
                /\ requestTimes' = Append(requestTimes, now)
                /\ UNCHANGED wakeAt
    /\ UNCHANGED <<pc, impl, now, lastOverpassRequest>>
    /\ UNCHANGED <<totalDistance, days, overnightStops, coordinates, stops, d, pace, sample, dedupVars, poiVars, asmVars, routeVars, gatherVars, scoutVars, progressVars, requestVars, presetVars, buttonVars, autoVars>>

\* src/unnamed/part_000:1969-1978: the timer is over, fetch is called.
TimerFires(c) ==
    /\ callerPc[c] = "waiting"
    /\ now >= wakeAt[c]
    /\ callerPc' = [callerPc EXCEPT ![c] = "fetching"]
    /\ requestTimes' = Append(requestTimes, now)
    /\ UNCHANGED <<pc, impl, now, lastOverpassRequest, wakeAt, callsMade>>
    /\ UNCHANGED <<totalDistance, days, overnightStops, coordinates, stops, d, pace, sample, dedupVars, poiVars, asmVars, routeVars, gatherVars, scoutVars, progressVars, requestVars, presetVars, buttonVars, autoVars>>

\* src/unnamed/part_000:1980-1997: fetch settles. A response, whatever its
\* status, sets lastOverpassRequest; a rejected fetch goes to the catch
\* block and leaves it as it was.
FetchSettles(c) ==
    /\ callerPc[c] = "fetching"
    /\ \E rejected \in BOOLEAN :
           lastOverpassRequest' = IF rejected THEN lastOverpassRequest ELSE now
    /\ callerPc' = [callerPc EXCEPT ![c] = "idle"]
    /\ UNCHANGED <<pc, impl, now, wakeAt, callsMade, requestTimes>>
    /\ UNCHANGED <<totalDistance, days, overnightStops, coordinates, stops, d, pace, sample, dedupVars, poiVars, asmVars, routeVars, gatherVars, scoutVars, progressVars, requestVars, presetVars, buttonVars, autoVars>>

\* Time passes.
ClockTick ==
    /\ now < StartTime + MaxTicks * Tick
    /\ now' = now + Tick
    /\ UNCHANGED <<pc, impl, lastOverpassRequest, callerPc, wakeAt, callsMade, requestTimes>>
    /\ UNCHANGED <<totalDistance, days, overnightStops, coordinates, stops, d, pace, sample, dedupVars, poiVars, asmVars, routeVars, gatherVars, scoutVars, progressVars, requestVars, presetVars, buttonVars, autoVars>>

NextOverpass ==
    \/ \E c \in Callers : ExecuteOverpassQuery(c)
    \/ \E c \in Callers : TimerFires(c)
    \/ \E c \in Callers : FetchSettles(c)
    \/ ClockTick

SpecOverpass == InitOverpass /\ [][NextOverpass]_vars

\* ------------------------------------------------------------ SpecGather
\* The gathering of planTrip, src/config.js:222-238 (the same code at
\* src/utils.js:2117-2133): one async callback per stop under Promise.all,
\* each awaiting the Promise.all of its two queries inside a try block.
\* The queries of all stops are in flight together and settle in any order.
PoisNear(i) == <<[title |-> "poi", stop |-> i]>>

LodgingNear(i) == <<[name |-> "lodging", stop |-> i]>>

\* The inner Promise.all of a stop: rejected as soon as one query is,
\* fulfilled when both are.
InnerSettled(i) ==
    \/ poiQuery[i] = "rejected"
    \/ accQuery[i] = "rejected"
    \/ (poiQuery[i] = "fulfilled" /\ accQuery[i] = "fulfilled")

\* src/config.js:223-237: what the callback of stop i returns; the try block
\* also holds the call of updateProgress.
StopEntry(i, progressThrows) ==
    IF poiQuery[i] = "fulfilled" /\ accQuery[i] = "fulfilled" /\ ~progressThrows
    THEN [stop |-> stops[i], pois |-> PoisNear(i), accommodations |-> LodgingNear(i)]
    ELSE [stop |-> stops[i], pois |-> <<>>, accommodations |-> <<>>]

\* An array filled in the order the callbacks return.
PromiseAll_byCompletion(values, order) ==
    [k \in 1..Len(order) |-> values[order[k]]]

\* Promise.all: the values in the order of the promises it was given.
PromiseAll(values, order) == [k \in 1..Len(values) |-> values[k]]

\* src/config.js:229 progress = 50 + ((index + 1) / stops.length) * 40 of the
\* callback of stop i, times stops.length.
StopProgress(i) == 50 * Len(stops) + i * 40

InitGather ==
    /\ pc = "gathering"
    /\ impl = "planTrip"
    /\ \E n \in 0..MaxStops :
           /\ stops = [k \in 1..n |-> Stop(k * IdealUnits, 1, "overnight", "candidate")]
           /\ poiQuery = [k \in 1..n |-> "pending"]
           /\ accQuery = [k \in 1..n |-> "pending"]
           /\ entries = [k \in 1..n |-> NULL]
    /\ completionOrder = <<>>
    /\ poisPerStop = <<>>
    /\ totalDistance = 0
    /\ days = 1
    /\ overnightStops = <<>>
    /\ coordinates = <<>>
    /\ d = 0
    /\ pace = "balanced"
    /\ sample = 0
    /\ IdleDedup
    /\ IdlePoi
    /\ IdleAssemble
    /\ IdleRoute
    /\ IdleRate
    /\ IdleScout
    /\ IdleProgress
    /\ IdleRequest
    /\ IdlePreset
    /\ IdleButton
    /\ IdleAuto

\* fetchPoisSimple of stop i settles.
PoisSettle(i) ==
    /\ pc = "gathering"
    /\ poiQuery[i] = "pending"
    /\ \E outcome \in {"fulfilled", "rejected"} : poiQuery' = [poiQuery EXCEPT ![i] = outcome]
    /\ UNCHANGED <<pc, impl, accQuery, entries, completionOrder, poisPerStop>>
    /\ UNCHANGED <<totalDistance, days, overnightStops, coordinates, stops, d, pace, sample, dedupVars, poiVars, asmVars, routeVars, rateVars, scoutVars, progressVars, requestVars, presetVars, buttonVars, autoVars>>

\* fetchAccommodations of stop i settles.
AccommodationsSettle(i) ==
    /\ pc = "gathering"
    /\ accQuery[i] = "pending"
    /\ \E outcome \in {"fulfilled", "rejected"} : accQuery' = [accQuery EXCEPT ![i] = outcome]
    /\ UNCHANGED <<pc, impl, poiQuery, entries, completionOrder, poisPerStop>>
    /\ UNCHANGED <<totalDistance, days, overnightStops, coordinates, stops, d, pace, sample, dedupVars, poiVars, asmVars, routeVars, rateVars, scoutVars, progressVars, requestVars, presetVars, buttonVars, autoVars>>

\* The callback of stop i goes on after its await and returns.
StopCallbackReturns(i) ==
    /\ pc = "gathering"
    /\ entries[i] = NULL
    /\ InnerSettled(i)
    /\ \E progressThrows \in BOOLEAN :
           entries' = [entries EXCEPT ![i] = StopEntry(i, progressThrows)]
    /\ completionOrder' = Append(completionOrder, i)
    /\ UNCHANGED <<pc, impl, poiQuery, accQuery, poisPerStop>>
    /\ UNCHANGED <<totalDistance, days, overnightStops, coordinates, stops, d, pace, sample, dedupVars, poiVars, asmVars, routeVars, rateVars, scoutVars, progressVars, requestVars, presetVars, buttonVars, autoVars>>

\* Every callback has returned: the outer Promise.all resolves.
GatherResolves ==
    /\ pc = "gathering"
    /\ \A i \in 1..Len(stops) : entries[i] # NULL
    /\ poisPerStop' = PromiseAll(entries, completionOrder)
    /\ pc' = "gathered"
    /\ UNCHANGED <<impl, poiQuery, accQuery, entries, completionOrder>>
    /\ UNCHANGED <<totalDistance, days, overnightStops, coordinates, stops, d, pace, sample, dedupVars, poiVars, asmVars, routeVars, rateVars, scoutVars, progressVars, requestVars, presetVars, buttonVars, autoVars>>

NextGather ==
    \/ \E i \in 1..Len(stops) : PoisSettle(i)
    \/ \E i \in 1..Len(stops) : AccommodationsSettle(i)
    \/ \E i \in 1..Len(stops) : StopCallbackReturns(i)
    \/ GatherResolves

SpecGather == InitGather /\ [][NextGather]_vars

\* ------------------------------------------------------------- SpecScout
\* The scout stage, await by await. findOvernightStops of src/ui.js:509 and
\* its older draft of src/utils.js:696 wait for two providers at every sample
\* point: Overpass (findNearbyAccommodations) and Nominatim (reverseGeocode).
\* Both reach fetch without an AbortController, so an answer is a step of
\* the provider, which may never be taken. The only timer of the stage is
\* the 8000 ms one the older draft races findNearbyAccommodations against.

\* src/utils.js:705 sampleInterval = Math.max(15000, totalDistance / 15), in
\* sixths of a kilometre.
sampleInterval == IF 15 * 6 > totalDistance \div 15 THEN 15 * 6 ELSE totalDistance \div 15

\* src/utils.js:708-723 the vertices at which the distance run since the
\* last sample has reached sampleInterval, with that run as distanceFromStart.
RECURSIVE SamplePointsFrom(_, _, _)
SamplePointsFrom(coords, k, currentDistance) ==
    IF k > Len(coords) - 1 THEN <<>>
    ELSE LET segmentDistance == calculateDistance(coords[k], coords[k + 1])
         IN  IF currentDistance >= sampleInterval
             THEN <<[lon |-> coords[k], distanceFromStart |-> currentDistance]>>
                  \o SamplePointsFrom(coords, k + 1, segmentDistance)
             ELSE SamplePointsFrom(coords, k + 1, currentDistance + segmentDistance)

samplePoints == SamplePointsFrom(coordinates, 1, 0)

\* src/utils.js:727 maxSamples of the older draft.
maxSamples_u696 == Min(Len(samplePoints), days * 2)

ScoutSamples == IF impl = "scout_u696" THEN maxSamples_u696 ELSE maxSamples

\* A polyline with a vertex every 500 km/6 * 6: every second vertex after
\* the first is a sample point of the older draft.
ScoutPolylines ==
    {<<0, ScenarioDistance>>,
     <<0, ScenarioDistance \div 2, ScenarioDistance>>,
     [k \in 1..13 |-> (k - 1) * (ScenarioDistance \div 12)]}

InitScout ==
    /\ pc = "scout"
    /\ impl \in {"scout_ui", "scout_u696"}
    /\ days \in 1..MaxDays
    /\ totalDistance = ScenarioDistance
    /\ overnightStops = <<>>
    /\ coordinates \in ScoutPolylines
    /\ stops = <<>>
    /\ d = 0
    /\ pace \in PaceNames
    /\ sample = 0
    /\ foundLodging = 0
    /\ IdleDedup
    /\ IdlePoi
    /\ IdleAssemble
    /\ IdleRoute
    /\ IdleRate
    /\ IdleGather
    /\ IdleProgress
    /\ IdleRequest
    /\ IdlePreset
    /\ IdleButton
    /\ IdleAuto

\* src/ui.js:518-533 one sample point of the loop up to the first await on
\* a provider: no point on the route skips the turn, otherwise the delay
\* timer (i > 0) fires and executeOverpassQuery sends its fetch.
ScoutPoint_ui ==
    /\ pc = "scout"
    /\ impl = "scout_ui"
    /\ sample < maxSamples
    /\ LET target == (totalDistance \div maxSamples) * sample
           closest == findClosestPointOnRoute(coordinates, target)
       IN  IF closest.null
           THEN sample' = sample + 1 /\ pc' = pc
           ELSE sample' = sample /\ pc' = "await_accommodations"
    /\ UNCHANGED <<totalDistance, days, overnightStops, coordinates, impl, stops, d, pace, dedupVars, poiVars, asmVars, routeVars, rateVars, gatherVars, scoutVars, progressVars, requestVars, presetVars, buttonVars, autoVars>>

\* src/utils.js:729-741 one sample point of the older draft up to the race
\* between findNearbyAccommodations and the 8000 ms timer.
ScoutPoint_u696 ==
    /\ pc = "scout"
    /\ impl = "scout_u696"
    /\ sample < maxSamples_u696
    /\ pc' = "await_accommodations"
    /\ UNCHANGED <<totalDistance, days, overnightStops, coordinates, impl, stops, d, pace, sample, dedupVars, poiVars, asmVars, routeVars, rateVars, gatherVars, scoutVars, progressVars, requestVars, presetVars, buttonVars, autoVars>>

\* Overpass answers or fails. src/ui.js:567-612 findNearbyAccommodations
\* always hands back lodging (what was found, or the fallback entries), and
\* the loop goes on to reverseGeocode. src/utils.js:426 hands back what was
\* found, [] on a failure, and an empty list ends the turn (utils.js:743).
AccommodationsAnswer ==
    /\ pc = "await_accommodations"
    /\ \E accommodations \in 0..MaxScore :
        /\ impl = "scout_ui" => accommodations > 0
        /\ foundLodging' = accommodations
        /\ IF accommodations > 0
           THEN pc' = "await_geocode" /\ sample' = sample
           ELSE pc' = "scout" /\ sample' = sample + 1
    /\ UNCHANGED <<totalDistance, days, overnightStops, coordinates, impl, stops, d, pace, dedupVars, poiVars, asmVars, routeVars, rateVars, gatherVars, progressVars, requestVars, presetVars, buttonVars, autoVars>>

\* src/utils.js:738-741, 754-756 the 8000 ms timer of the race fires first:
\* the rejection is caught and the loop moves to the next sample point.
TimeoutFires_u696 ==
    /\ pc = "await_accommodations"
    /\ impl = "scout_u696"
    /\ pc' = "scout"
    /\ sample' = sample + 1
    /\ UNCHANGED <<totalDistance, days, overnightStops, coordinates, impl, stops, d, pace, dedupVars, poiVars, asmVars, routeVars, rateVars, gatherVars, scoutVars, progressVars, requestVars, presetVars, buttonVars, autoVars>>

\* Nominatim answers or fails (reverseGeocode, src/unnamed/part_000:1910,
\* returns null then) and the stop is pushed: src/ui.js:536-550,
\* src/utils.js:744-752.
GeocodeAnswer ==
    /\ pc = "await_geocode"
    /\ \E locationInfo \in {"place", "null"} :
        LET at == IF impl = "scout_u696"
                  THEN samplePoints[sample + 1].distanceFromStart
                  ELSE findClosestPointOnRoute(coordinates,
                           (totalDistance \div maxSamples) * sample).distanceFromStart
            fallbackName == IF impl = "scout_u696" THEN "Accommodation Available"
                            ELSE "Accommodation Stop i"
        IN  overnightStops' = Append(overnightStops,
                Stop(at, foundLodging, "overnight",
                     IF locationInfo = "null" THEN fallbackName ELSE locationInfo))
    /\ sample' = sample + 1
    /\ pc' = "scout"
    /\ foundLodging' = 0
    /\ UNCHANGED <<totalDistance, days, coordinates, impl, stops, d, pace, dedupVars, poiVars, asmVars, routeVars, rateVars, gatherVars, progressVars, requestVars, presetVars, buttonVars, autoVars>>

\* src/ui.js:564, src/utils.js:760 the loop is over and the stops are returned.
ScoutReturn ==
    /\ pc = "scout"
    /\ sample >= ScoutSamples
    /\ pc' = "scouted"
    /\ UNCHANGED <<totalDistance, days, overnightStops, coordinates, impl, stops, d, pace, sample, dedupVars, poiVars, asmVars, routeVars, rateVars, gatherVars, scoutVars, progressVars, requestVars, presetVars, buttonVars, autoVars>>

NextScout ==
    \/ ScoutPoint_ui
    \/ ScoutPoint_u696
    \/ AccommodationsAnswer
    \/ TimeoutFires_u696
    \/ GeocodeAnswer
    \/ ScoutReturn

\* The steps of the program and of its timer are taken when they can be;
\* nothing obliges a provider to answer.
ScoutFairness ==
    /\ WF_vars(ScoutPoint_ui)
    /\ WF_vars(ScoutPoint_u696)
    /\ WF_vars(TimeoutFires_u696)
    /\ WF_vars(ScoutReturn)

SpecScout == InitScout /\ [][NextScout]_vars /\ ScoutFairness

\* ---------------------------------------------------------- SpecProgress
\* computeSmartTripStops of src/ui.js:786 with its progress callback. What
\* the providers answer is fixed with the request (responses, geocodes), so
\* that runs which differ in the callback alone can be compared. Every
\* invocation of the callback is a bare call: none is inside a try block.

\* A call of progressCallback returns, or throws when the callback is one
\* that throws; `if (progressCallback)` skips the call of an absent one.
Invocations == IF progressCallback = "throws" THEN {"returns", "throws"} ELSE {"returns"}

\* src/ui.js:713 maxSamples of findRoadsideStops.
roadsideSamples == Min(TRIP_PACE_CONFIG[pace].maxRoadsideStops * 2, 8)

\* src/ui.js:520-554 the body of one turn of the overnight loop before the
\* callback: the list of stops after sample point k (counted from 0).
ScoutTurn(list, k) ==
    LET closest == findClosestPointOnRoute(coordinates, (totalDistance \div maxSamples) * k)
    IN  IF closest.null THEN list
        ELSE Append(list, Stop(closest.distanceFromStart, responses[k + 1], "overnight",
                               IF geocodes THEN "place" ELSE "Accommodation Stop i"))

InitProgress ==
    /\ pc = "step1"
    /\ impl = "ui"
    /\ days \in 1..MaxDays
    /\ totalDistance = ScenarioDistance
    /\ overnightStops = <<>>
    /\ coordinates \in {<<0, ScenarioDistance>>, <<0, ScenarioDistance \div 2, ScenarioDistance>>}
    /\ stops = <<>>
    /\ d = 0
    /\ pace \in PaceNames
    /\ sample = 0
    /\ progressCallback \in {"absent", "returns", "throws"}
    /\ responses \in [1..6 -> 1..MaxScore]
    /\ geocodes \in BOOLEAN
    /\ IdleDedup
    /\ IdlePoi
    /\ IdleAssemble
    /\ IdleRoute
    /\ IdleRate
    /\ IdleGather
    /\ IdleScout
    /\ IdleRequest
    /\ IdlePreset
    /\ IdleButton
    /\ IdleAuto

\* src/ui.js:797-799 progressCallback(20, ...).
Progress20 ==
    /\ pc = "step1"
    /\ \E outcome \in Invocations :
        pc' = IF outcome = "throws" THEN "rejected" ELSE "overnight"
    /\ UNCHANGED <<totalDistance, days, overnightStops, coordinates, impl, stops, d, pace, sample, dedupVars, poiVars, asmVars, routeVars, rateVars, gatherVars, scoutVars, progressVars, requestVars, presetVars, buttonVars, autoVars>>

\* src/ui.js:520-561 one turn of the loop of findOvernightStops; the
\* callback is invoked after the try block, so its exception leaves the
\* loop, the function and computeSmartTripStops.
OvernightTurn ==
    /\ pc = "overnight"
    /\ sample < maxSamples
    /\ overnightStops' = ScoutTurn(overnightStops, sample)
    /\ \E outcome \in Invocations :
        IF outcome = "throws"
        THEN pc' = "rejected" /\ sample' = sample
        ELSE pc' = pc /\ sample' = sample + 1
    /\ UNCHANGED <<totalDistance, days, coordinates, impl, stops, d, pace, dedupVars, poiVars, asmVars, routeVars, rateVars, gatherVars, scoutVars, progressVars, requestVars, presetVars, buttonVars, autoVars>>

\* src/ui.js:564, 800-806 findOvernightStops returns and
\* progressCallback(40, ...) is invoked.
Progress40 ==
    /\ pc = "overnight"
    /\ sample >= maxSamples
    /\ \E outcome \in Invocations :
        pc' = IF outcome = "throws" THEN "rejected" ELSE "roadside"
    /\ UNCHANGED <<totalDistance, days, overnightStops, coordinates, impl, stops, d, pace, sample, dedupVars, poiVars, asmVars, routeVars, rateVars, gatherVars, scoutVars, progressVars, requestVars, presetVars, buttonVars, autoVars>>

\* src/ui.js:717-735 one turn of the loop of findRoadsideStops: a delay and
\* the callback; no roadside stop is ever pushed.
RoadsideTurn ==
    /\ pc = "roadside"
    /\ d < roadsideSamples
    /\ \E outcome \in Invocations :
        IF outcome = "throws"
        THEN pc' = "rejected" /\ d' = d
        ELSE pc' = pc /\ d' = d + 1
    /\ UNCHANGED <<totalDistance, days, overnightStops, coordinates, impl, stops, pace, sample, dedupVars, poiVars, asmVars, routeVars, rateVars, gatherVars, scoutVars, progressVars, requestVars, presetVars, buttonVars, autoVars>>

\* src/ui.js:811-821 progressCallback(60, ...), createSmartItinerary and the
\* return of stops and of itinerary.days, which is [].
Progress60 ==
    /\ pc = "roadside"
    /\ d >= roadsideSamples
    /\ \E outcome \in Invocations :
        IF outcome = "throws"
        THEN pc' = "rejected" /\ UNCHANGED <<overnightStops, stops>>
        ELSE /\ pc' = "returned"
             /\ overnightStops' = SortByScore(overnightStops, idealDailyDistance)
             /\ stops' = selectOvernightStops_ui(overnightStops, idealDailyDistance, days)
    /\ UNCHANGED <<totalDistance, days, coordinates, impl, d, pace, sample, dedupVars, poiVars, asmVars, routeVars, rateVars, gatherVars, scoutVars, progressVars, requestVars, presetVars, buttonVars, autoVars>>

NextProgress ==
    \/ Progress20
    \/ OvernightTurn
    \/ Progress40
    \/ RoadsideTurn
    \/ Progress60

SpecProgress == InitProgress /\ [][NextProgress]_vars

\* ----------------------------------------------------------- SpecRequest
\* A planning request from its entry to its end: planTrip of
\* src/config.js:133, planTrip of src/autocomplete.js:388, and
\* computeSmartTripStops of src/ui.js:786 called with a route and a day
\* count. The route is 60 units long, which every day count up to 6
\* divides, or has no length at all.
RequestDistance == 12 * IdealUnits

Max(a, b) == IF a > b THEN a ELSE b

\* src/config.js:85 UI_CONFIG.maxDays.
UI_CONFIG_maxDays == 7

\* src/config.js:196-197 idealDays = Math.ceil(totalHours / maxDailyDrivingHours).
idealDays ==
    (totalDuration + TRIP_PACE_CONFIG[pace].maxDailyDrivingHours - 1)
        \div TRIP_PACE_CONFIG[pace].maxDailyDrivingHours

\* src/config.js:198 the day count planTrip plans with.
days_config == Max(1, Min(idealDays, UI_CONFIG_maxDays))

\* src/autocomplete.js:392 Math.max(1, Math.min(30, parseInt(value, 10) || 1)):
\* NaN and 0 are falsy and become 1.
days_autocomplete ==
    LET parsed == IF daysInput = <<>> \/ daysInput = <<0>> THEN 1 ELSE daysInput[1]
    IN  Max(1, Min(30, parsed))

\* src/ui.js:655-705 selectOvernightStops as createSmartItinerary calls it
\* (src/ui.js:768-772), with the arithmetic of a day count below 2 and of a
\* route without length: `d < days` never holds for days <= 1; with
\* totalDistance 0 the ideal distance is 0, every score is 0/0 - ... = NaN,
\* and NaN < Infinity selects nothing.
selectedOvernightStops(cands, dist, nDays) ==
    IF nDays <= 1 \/ dist = 0 THEN <<>>
    ELSE selectOvernightStops_ui(cands, dist \div nDays, nDays)

\* src/autocomplete.js:273-304 computeStopsByDistance on a route without
\* annotations: every segment has length route.distance / (n - 1), the
\* binary search finds the first vertex at or beyond totalDistance * d / days
\* (compared after multiplying out the divisions), clamped to 1..n-1.
StopByDistance(coords, dist, dayNo, nDays) ==
    LET n == Len(coords)
        segments == Max(1, n - 1)
        AtOrBeyond == {k \in 0..(n - 1) : k * dist * nDays >= dist * dayNo * segments}
        idx == IF AtOrBeyond = {} THEN 0
               ELSE CHOOSE k \in AtOrBeyond : \A other \in AtOrBeyond : k <= other
        clamped == Min(Max(1, idx), n - 1)
    IN  [index |-> clamped, distanceFromStartMeters |-> clamped * (dist \div segments)]

computeStopsByDistance(coords, dist, nDays) ==
    [dayNo \in 1..(IF nDays > 1 THEN nDays - 1 ELSE 0) |-> StopByDistance(coords, dist, dayNo, nDays)]

RequestPositions == {0, RequestDistance \div 3, RequestDistance \div 2, (2 * RequestDistance) \div 3}

RequestHours == {0, 4, 8, 16, 24}

EntryPoints == {"planTrip_config", "planTrip_autocomplete", "computeSmartTripStops"}

InitRequest ==
    /\ impl \in EntryPoints
    /\ pc = IF impl = "computeSmartTripStops" THEN "planning" ELSE "request"
    /\ totalDistance \in {0, RequestDistance}
    /\ coordinates \in {<<0, totalDistance>>, <<0, totalDistance \div 2, totalDistance>>}
    /\ totalDuration \in RequestHours
    /\ daysInput \in {<<>>} \cup {<<n>> : n \in (-1)..MaxDays}
    /\ impl = "computeSmartTripStops" => daysInput # <<>>
    /\ days = IF impl = "computeSmartTripStops" THEN daysInput[1] ELSE 0
    /\ routeFound \in BOOLEAN
    /\ impl = "computeSmartTripStops" => routeFound
    /\ pace \in PaceNames
    /\ overnightStops = <<>>
    /\ stops = <<>>
    /\ d = 0
    /\ sample = 0
    /\ IdleDedup
    /\ IdlePoi
    /\ IdleAssemble
    /\ IdleRoute
    /\ IdleRate
    /\ IdleGather
    /\ IdleScout
    /\ IdleProgress
    /\ IdlePreset
    /\ IdleButton
    /\ IdleAuto

\* src/config.js:133-198 planTrip up to the call of computeSmartTripStops:
\* a geocode or fetchRoute failure is caught at line 251 and shown as the
\* status; otherwise the day count is computed from the route's duration.
PlanTrip_config ==
    /\ pc = "request"
    /\ impl = "planTrip_config"
    /\ IF routeFound
       THEN pc' = "planning" /\ days' = days_config
       ELSE pc' = "rejected" /\ days' = days
    /\ UNCHANGED <<totalDistance, overnightStops, coordinates, impl, stops, d, pace, sample, dedupVars, poiVars, asmVars, routeVars, rateVars, gatherVars, scoutVars, progressVars, requestVars, presetVars, buttonVars, autoVars>>

\* src/autocomplete.js:388-435 planTrip of the first draft: the day count
\* is read from the form and clamped, the route is fetched, and
\* computeStopsByDistance places the stops.
PlanTrip_autocomplete ==
    /\ pc = "request"
    /\ impl = "planTrip_autocomplete"
    /\ days' = days_autocomplete
    /\ IF routeFound
       THEN pc' = "planned" /\ stops' = computeStopsByDistance(coordinates, totalDistance, days_autocomplete)
       ELSE pc' = "rejected" /\ stops' = stops
    /\ UNCHANGED <<totalDistance, overnightStops, coordinates, impl, d, pace, sample, dedupVars, poiVars, asmVars, routeVars, rateVars, gatherVars, scoutVars, progressVars, requestVars, presetVars, buttonVars, autoVars>>

\* src/ui.js:786-822 computeSmartTripStops with whatever candidates the
\* scout stage found, and, under planTrip, src/config.js:212-244: the
\* stops are rendered and the status is 'Trip planned successfully!'.
ComputeSmartTripStops ==
    /\ pc = "planning"
    /\ \E n \in 0..MaxCands : \E p \in [1..n -> RequestPositions \cap 0..totalDistance] :
       \E sc \in [1..n -> 1..MaxScore] :
           stops' = selectedOvernightStops(Candidates(p, sc), totalDistance, days)
    /\ pc' = IF impl = "planTrip_config" THEN "planned" ELSE "returned"
    /\ UNCHANGED <<totalDistance, days, overnightStops, coordinates, impl, d, pace, sample, dedupVars, poiVars, asmVars, routeVars, rateVars, gatherVars, scoutVars, progressVars, requestVars, presetVars, buttonVars, autoVars>>

NextRequest ==
    \/ PlanTrip_config
    \/ PlanTrip_autocomplete
    \/ ComputeSmartTripStops

SpecRequest == InitRequest /\ [][NextRequest]_vars

\* ---------------------------------------------------------- SpecRoadside
\* findRoadsideStops: the draft of src/utils.js:763, which asks
\* fetchPoisSimple at sample points of the polyline, and the one of
\* src/ui.js:707, whose loop only waits and reports progress.

\* src/utils.js:770 sampleInterval = Math.max(8000, totalDistance / 30), in
\* sixths of a kilometre.
roadsideInterval == IF 8 * 6 > totalDistance \div 30 THEN 8 * 6 ELSE totalDistance \div 30

\* src/utils.js:773-788 the sample points, each with the index of its vertex.
RECURSIVE RoadsidePointsFrom(_, _, _)
RoadsidePointsFrom(coords, k, currentDistance) ==
    IF k > Len(coords) - 1 THEN <<>>
    ELSE LET segmentDistance == calculateDistance(coords[k], coords[k + 1])
         IN  IF currentDistance >= roadsideInterval
             THEN <<[lon |-> coords[k], distanceFromStart |-> currentDistance, index |-> k - 1]>>
                  \o RoadsidePointsFrom(coords, k + 1, segmentDistance)
             ELSE RoadsidePointsFrom(coords, k + 1, currentDistance + segmentDistance)

roadsidePoints == RoadsidePointsFrom(coordinates, 1, 0)

\* src/utils.js:792 and src/ui.js:713 the number of turns of the loop.
roadsideTurns ==
    IF impl = "roadside_u763" THEN Min(Len(roadsidePoints), 12) ELSE roadsideSamples

\* A filter that keeps every attraction.
suitableAttractions_all(attractions, config) == attractions

\* src/utils.js:811-814 the attractions whose time estimate reaches the
\* pace's minActivityTime.
suitableAttractions(attractions, config) ==
    SelectSeq(attractions, LAMBDA attraction :
        ActivityTime(attraction.category) >= config.minActivityTimeTenths)

\* What fetchPoisSimple may hand back at a sample point.
FetchedAttractions ==
    { [k \in 1..Len(cats) |-> [category |-> cats[k]]] :
          cats \in { <<>>, <<"Museum">>, <<"Scenic View">>, <<"Casino">>,
                     <<"Park", "Scenic View">>, <<"Restaurant", "Museum">> } }

\* Polylines of two to five vertices, evenly spaced.
RoadsidePolylines ==
    { [k \in 1..n |-> (k - 1) * (ScenarioDistance \div 12)] : n \in 2..5 }

InitRoadside ==
    /\ pc = "roadside"
    /\ impl \in {"roadside_u763", "roadside_ui"}
    /\ totalDistance = ScenarioDistance
    /\ coordinates \in RoadsidePolylines
    /\ pace \in PaceNames
    /\ days = 1
    /\ overnightStops = <<>>
    /\ stops = <<>>
    /\ d = 0
    /\ sample = 0
    /\ IdleDedup
    /\ IdlePoi
    /\ IdleAssemble
    /\ IdleRoute
    /\ IdleRate
    /\ IdleGather
    /\ IdleScout
    /\ IdleProgress
    /\ IdleRequest
    /\ IdlePreset
    /\ IdleButton
    /\ IdleAuto

\* src/utils.js:794-825 one turn of the loop: fetchPoisSimple answers, or
\* the 5000 ms timer or an exception ends the turn in the catch block; the
\* suitable attractions, if any, make a stop named by reverseGeocode.
FindRoadsideStops_u763 ==
    /\ pc = "roadside"
    /\ impl = "roadside_u763"
    /\ sample < roadsideTurns
    /\ \/ /\ answers' = Append(answers, [failed |-> TRUE, attractions |-> <<>>])
          /\ UNCHANGED roadsideStops
       \/ \E attractions \in FetchedAttractions :
            /\ answers' = Append(answers, [failed |-> FALSE, attractions |-> attractions])
            /\ LET suitable == suitableAttractions(attractions, TRIP_PACE_CONFIG[pace])
                   point == roadsidePoints[sample + 1]
               IN  IF Len(suitable) > 0
                   THEN \E locationInfo \in {"place", "null"} :
                            roadsideStops' = Append(roadsideStops,
                                [distanceFromStart |-> point.distanceFromStart,
                                 index |-> point.index,
                                 name |-> IF locationInfo = "null" THEN "Attractions Available"
                                          ELSE locationInfo,
                                 attractions |-> suitable,
                                 type |-> "roadside"])
                   ELSE UNCHANGED roadsideStops
    /\ sample' = sample + 1
    /\ UNCHANGED <<pc, totalDistance, days, overnightStops, coordinates, impl, stops, d, pace, itineraryDays, planDay, radiusMeters, limit, preferences, searchIndex, poisFetched, queryLog, result, dedupVars, routeVars, rateVars, gatherVars, scoutVars, progressVars, requestVars, presetVars, buttonVars, autoVars>>

\* src/ui.js:717-761 one turn of the loop: the delay, and nothing is pushed.
FindRoadsideStops_ui ==
    /\ pc = "roadside"
    /\ impl = "roadside_ui"
    /\ sample < roadsideTurns
    /\ sample' = sample + 1
    /\ UNCHANGED <<pc, totalDistance, days, overnightStops, coordinates, impl, stops, d, pace, dedupVars, poiVars, asmVars, routeVars, rateVars, gatherVars, scoutVars, progressVars, requestVars, presetVars, buttonVars, autoVars>>

\* src/utils.js:828, src/ui.js:764 return roadsideStops.
FindRoadsideStops_return ==
    /\ pc = "roadside"
    /\ sample >= roadsideTurns
    /\ pc' = "roadside_returned"
    /\ UNCHANGED <<totalDistance, days, overnightStops, coordinates, impl, stops, d, pace, sample, dedupVars, poiVars, asmVars, routeVars, rateVars, gatherVars, scoutVars, progressVars, requestVars, presetVars, buttonVars, autoVars>>

NextRoadside ==
    \/ FindRoadsideStops_u763
    \/ FindRoadsideStops_ui
    \/ FindRoadsideStops_return

SpecRoadside == InitRoadside /\ [][NextRoadside]_vars

\* ------------------------------------------------------------ SpecPreset
\* planTrip called again and again on one page, with the pace, the drive
\* time range and the route of each call. The draft of src/utils.js:2028
\* writes the range into the pace's preset object; src/config.js:133 only
\* reads the range.

\* Math.ceil(hours / perDay) for whole numbers.
CeilDiv(hours, perDay) == (hours + perDay - 1) \div perDay

\* src/utils.js:2089-2091 and src/config.js:196-198 the day count for a
\* route of `hours` hours at `perDay` driving hours a day.
DaysFor(hours, perDay) == Max(1, Min(CeilDiv(hours, perDay), UI_CONFIG_maxDays))

\* getDriveTimeRange(), src/utils.js:2404: the two fields of the form.
DriveTimeRanges == { [min |-> lo, max |-> hi] : lo \in {2, 4}, hi \in {4, 6, 8, 10} }

InitPreset ==
    /\ pc = "page"
    /\ impl \in {"planTrip_u2028", "planTrip_config"}
    /\ paceConfig = PacePresets
    /\ driveTimeRange = [min |-> 4, max |-> 8]
    /\ plansMade = 0
    /\ totalDuration = 0
    /\ daysInput = <<>>
    /\ routeFound = TRUE
    /\ IdleSelect
    /\ IdleDedup
    /\ IdlePoi
    /\ IdleAssemble
    /\ IdleRoute
    /\ IdleRate
    /\ IdleGather
    /\ IdleScout
    /\ IdleProgress
    /\ IdleButton
    /\ IdleAuto

\* src/utils.js:2076-2091 config = TRIP_PACE_CONFIG[tripPace] is the preset
\* object itself, and the two assignments write into it.
PlanTrip_u2028 ==
    /\ impl = "planTrip_u2028"
    /\ plansMade < MaxPlans
    /\ \E tripPace \in PaceNames : \E range \in DriveTimeRanges : \E hours \in RequestHours :
        LET config == [maxDailyDrivingHours |-> Min(paceConfig[tripPace].maxDailyDrivingHours, range.max),
                       minDailyDrivingHours |-> Max(2, range.min)]
        IN  /\ paceConfig' = [paceConfig EXCEPT ![tripPace] = config]
            /\ days' = DaysFor(hours, config.maxDailyDrivingHours)
            /\ pace' = tripPace
            /\ driveTimeRange' = range
            /\ totalDuration' = hours
    /\ plansMade' = plansMade + 1
    /\ pc' = "planned"
    /\ UNCHANGED <<totalDistance, overnightStops, coordinates, impl, stops, d, sample, daysInput, routeFound, dedupVars, poiVars, asmVars, routeVars, rateVars, gatherVars, scoutVars, progressVars, buttonVars, autoVars>>

\* src/config.js:183-198 the range is read and logged; the preset is only read.
PlanTrip_c133 ==
    /\ impl = "planTrip_config"
    /\ plansMade < MaxPlans
    /\ \E tripPace \in PaceNames : \E range \in DriveTimeRanges : \E hours \in RequestHours :
        /\ days' = DaysFor(hours, paceConfig[tripPace].maxDailyDrivingHours)
        /\ pace' = tripPace
        /\ driveTimeRange' = range
        /\ totalDuration' = hours
    /\ plansMade' = plansMade + 1
    /\ pc' = "planned"
    /\ UNCHANGED <<totalDistance, overnightStops, coordinates, impl, stops, d, sample, daysInput, routeFound, paceConfig, dedupVars, poiVars, asmVars, routeVars, rateVars, gatherVars, scoutVars, progressVars, buttonVars, autoVars>>

NextPreset ==
    \/ PlanTrip_u2028
    \/ PlanTrip_c133

SpecPreset == InitPreset /\ [][NextPreset]_vars

\* ------------------------------------------------------------ SpecButton
\* planTrip of src/config.js:133 and of src/utils.js:2028 from the submit
\* event to the end of its finally block, call after call. Every await of
\* the try block settles with a value or with an exception; an exception is
\* caught at src/config.js:251 (src/utils.js:2146).

\* A handler whose button is only enabled again at the end of the try block.
DisabledAfter_successOnly(how) == how # "success"

\* src/config.js:254-256, src/utils.js:2149-2151 the finally block sets
\* disabled = false however the try block ended.
DisabledAfter(how) == FALSE

\* The awaits of the try block in order, with the failure each can end in.
TryBlockSteps ==
    <<[at |-> "geocoding",  failure |-> "start not found"],
      [at |-> "geocoding end", failure |-> "end not found"],
      [at |-> "validating", failure |-> "invalid location"],
      [at |-> "routing",    failure |-> "routing error"],
      [at |-> "computing",  failure |-> "stop computation error"],
      [at |-> "gathering",  failure |-> "none"]>>

StepAt(position) == CHOOSE k \in 1..Len(TryBlockSteps) : TryBlockSteps[k].at = position

InitButton ==
    /\ pc = "page"
    /\ impl \in {"planTrip_config", "planTrip_u2028"}
    /\ plansMade = 0
    /\ submitDisabled = FALSE
    /\ fieldsFilled = TRUE
    /\ tryOutcome = "none"
    /\ paceConfig = PacePresets
    /\ driveTimeRange = [min |-> 4, max |-> 8]
    /\ IdleSelect
    /\ IdleDedup
    /\ IdlePoi
    /\ IdleAssemble
    /\ IdleRoute
    /\ IdleRate
    /\ IdleGather
    /\ IdleScout
    /\ IdleProgress
    /\ IdleRequest
    /\ IdleAuto

\* src/config.js:134-149, src/utils.js:2029-2036 the submit event: with an
\* empty field the handler returns, otherwise it disables the button and
\* enters the try block.
PlanTrip_submit ==
    /\ pc \in {"page", "ended"}
    /\ plansMade < MaxPlans
    /\ plansMade' = plansMade + 1
    /\ tryOutcome' = "none"
    /\ \E startFilled \in BOOLEAN : \E endFilled \in BOOLEAN :
        /\ fieldsFilled' = (startFilled /\ endFilled)
        /\ IF startFilled /\ endFilled
           THEN submitDisabled' = TRUE /\ pc' = "geocoding"
           ELSE submitDisabled' = submitDisabled /\ pc' = "ended"
    /\ UNCHANGED <<totalDistance, days, overnightStops, coordinates, impl, stops, d, pace, sample, paceConfig, driveTimeRange, dedupVars, poiVars, asmVars, routeVars, rateVars, gatherVars, scoutVars, progressVars, requestVars, autoVars>>

\* src/config.js:151-244, src/utils.js:2038-2144 one await of the try block
\* settles: the block goes on, or leaves through the catch block; after the
\* last one the results are rendered.
TryBlockStep ==
    /\ pc \in {TryBlockSteps[k].at : k \in 1..Len(TryBlockSteps)}
    /\ \E settled \in {"fulfilled", "rejected"} :
        LET k == StepAt(pc)
        IN  IF settled = "rejected" /\ TryBlockSteps[k].failure # "none"
            THEN pc' = "finally" /\ tryOutcome' = TryBlockSteps[k].failure
            ELSE IF k < Len(TryBlockSteps)
            THEN pc' = TryBlockSteps[k + 1].at /\ tryOutcome' = tryOutcome
            ELSE pc' = "finally" /\ tryOutcome' = "success"
    /\ UNCHANGED <<totalDistance, days, overnightStops, coordinates, impl, stops, d, pace, sample, submitDisabled, fieldsFilled, presetVars, dedupVars, poiVars, asmVars, routeVars, rateVars, gatherVars, scoutVars, progressVars, requestVars, autoVars>>

\* src/config.js:254-256, src/utils.js:2149-2151 the finally block.
PlanTrip_finally ==
    /\ pc = "finally"
    /\ submitDisabled' = DisabledAfter(tryOutcome)
    /\ pc' = "ended"
    /\ UNCHANGED <<totalDistance, days, overnightStops, coordinates, impl, stops, d, pace, sample, fieldsFilled, tryOutcome, presetVars, dedupVars, poiVars, asmVars, routeVars, rateVars, gatherVars, scoutVars, progressVars, requestVars, autoVars>>

NextButton ==
    \/ PlanTrip_submit
    \/ TryBlockStep
    \/ PlanTrip_finally

\* The awaited calls settle and the handler runs on; nothing obliges the
\* user to submit the form.
ButtonFairness ==
    /\ WF_vars(TryBlockStep)
    /\ WF_vars(PlanTrip_finally)

SpecButton == InitButton /\ [][NextButton]_vars /\ ButtonFairness

\* =================================================================== claims
SelectorReturned == pc = "selected"

StopDistance(k) == stops[k].distanceFromStart

\* C1: for every non-empty candidate list and every days = n >= 1 the selector
\* (and so the stops the itinerary returns) yields exactly n - 1 overnight stops.
C1_ExactlyDaysMinusOne ==
    (pc \in {"selected", "returned"} /\ Len(overnightStops) > 0)
        => Len(stops) = days - 1

C3_StrictlyAscending ==
    SelectorReturned =>
        \A k \in 1..(Len(stops) - 1) : StopDistance(k) < StopDistance(k + 1)

\* A result of a sorting draft whose day loop picked the stops in an order
\* that is not the returned one: the final sort moved them.
C3_Witness ==
    /\ SelectorReturned
    /\ impl = "u952"
    /\ Len(stops) >= 2
    /\ SelectLoop_fb(overnightStops, idealDailyDistance, days, 1, <<>>, 5, 3) # stops

\* C4: with no candidate that has lodging, the itinerary carries exactly
\* days - 1 stops of type 'basic', the k-th at idealDailyDistance * k.
C4_BasicFallback ==
    (pc = "returned" /\ Len(overnightStops) = 0) =>
        /\ Len(stops) = days - 1
        /\ \A k \in 1..Len(stops) :
               /\ stops[k].type = "basic"
               /\ StopDistance(k) = idealDailyDistance * k

\* C5: 1000 km over 3 days, any pace preset, lodging at every sampled point:
\* the sampling and the selection yield 2 overnight stops, one within
\* 0.5 * idealDailyDistance of 333 km and one within it of 667 km.
C5_ScenarioA ==
    (pc = "returned" /\ totalDistance = ScenarioDistance /\ days = 3) =>
        /\ Len(stops) = 2
        /\ \A day \in 1..2 : \E k \in 1..Len(stops) :
               2 * Abs(StopDistance(k) - idealDailyDistance * day) <= idealDailyDistance

\* C9: the list removeDuplicatePois returns has no two POIs with the same
\* normalized title, has one POI for every normalized title of its input,
\* that POI being the first of the input with that title, and is left as it
\* is by a second pass of the same function.
C9_Dedup ==
    pc = "deduplicated" =>
        /\ \A a, b \in 1..Len(dedupOutput) :
               a # b => normalizedTitle(dedupOutput[a]) # normalizedTitle(dedupOutput[b])
        /\ \A k \in 1..Len(dedupInput) : \E a \in 1..Len(dedupOutput) :
               /\ normalizedTitle(dedupOutput[a]) = normalizedTitle(dedupInput[k])
               /\ dedupOutput[a].url <= k
               /\ dedupOutput[a] = dedupInput[dedupOutput[a].url]
        /\ \A a \in 1..Len(dedupOutput) : dedupOutput[a].url \in 1..Len(dedupInput)
        /\ impl = "u32" => removeDuplicatePois(dedupOutput) = dedupOutput
        /\ impl = "u2596" => removeDuplicatePois_u2596(dedupOutput) = dedupOutput

\* 'City Museum' from one provider and 'city museum ' from the other: the
\* first one is the only one returned.
C9_Witness ==
    /\ pc = "deduplicated"
    /\ Len(dedupInput) = 2
    /\ dedupInput[1].title # dedupInput[2].title
    /\ dedupInput[1].title = <<"C", "i", "t", "y", " ", "M", "u", "s", "e", "u", "m">>
    /\ normalizedTitle(dedupInput[1]) = normalizedTitle(dedupInput[2])
    /\ dedupOutput = <<dedupInput[1]>>

\* ---- fetchPoisSimple
FetchReturned == pc = "done"

\* Every provider call of the fetch gave back nothing.
AllEmpty == \A k \in 1..Len(answers) : answers[k].pois = <<>>

\* C6: the k-th loop turn of fetchPoisSimple queries the providers at k
\* times the radius the caller passed: R, then 2R, then 3R.
C6_RadiiFromCaller ==
    \A k \in 1..Len(queryLog) : queryLog[k].radius = radiusMeters * ((k + 1) \div 2)

\* C7 as stated: when every query at every radius gave back nothing,
\* fetchPoisSimple returns exactly the generic set.
C7_ExactGenericSet ==
    (FetchReturned /\ AllEmpty) => result = createGenericPois

\* C7: when every query at every radius gave back nothing, fetchPoisSimple
\* returns a non-empty list of generic POIs, each tagged 'generic': the ones
\* of the generic set that the preferences accept, or the whole set when
\* there are no preferences or they accept none, cut to the limit.
C7_GenericFallback ==
    (FetchReturned /\ AllEmpty) =>
        LET accepted == FilterByPreferences(createGenericPois, preferences)
        IN  /\ Len(result) >= 1
            /\ \A k \in 1..Len(result) : result[k].source = "generic"
            /\ result = Slice(IF preferences = <<>> \/ accepted = <<>>
                              THEN createGenericPois ELSE accepted, limit)

\* Three empty loop turns and a preference that accepts one generic POI only.
C7_Witness ==
    /\ FetchReturned
    /\ AllEmpty
    /\ Len(queryLog) = 2 * Len(searchRadii)
    /\ preferences = <<"outdoor">>
    /\ Len(result) = 1
    /\ result[1].source = "generic"

\* C8: a provider call that throws does not end the loop turn: after a
\* failed Wikipedia call Overpass is queried at the same radius, and when
\* one provider threw and the other gave back POIs at that radius, the fetch
\* returns what those POIs alone yield.
C8_ProviderFailureIsolated ==
    /\ \A k \in 1..Len(answers) :
           (answers[k].provider = "wikipedia" /\ answers[k].threw) =>
               IF k = Len(answers) THEN pc = "overpass"
               ELSE /\ answers[k + 1].provider = "overpass"
                    /\ answers[k + 1].radius = answers[k].radius
    /\ FetchReturned =>
           \A a, b \in 1..Len(answers) :
               (/\ answers[a].radius = answers[b].radius
                /\ answers[a].threw
                /\ ~answers[b].threw
                /\ answers[b].pois # <<>>) =>
                   /\ poisFetched = answers[b].pois
                   /\ result = ReturnedPois(answers[b].pois, preferences, limit)
                   /\ Len(result) >= 1

\* Overpass threw in the turn in which Wikipedia gave back a POI, and the
\* POI is returned.
C8_Witness ==
    /\ FetchReturned
    /\ Len(answers) = 2
    /\ answers[1].pois # <<>>
    /\ answers[2].threw
    /\ preferences = <<>>
    /\ result = answers[1].pois

C11_RankedOrder ==
    FetchReturned =>
        \A k \in 1..(Len(result) - 1) :
            ~RanksBefore(result[k + 1], result[k], preferences)

\* The POIs the providers had in the loop turn that ended the fetch, merged
\* and de-duplicated.
MergedPois ==
    removeDuplicatePois(answers[Len(answers) - 1].found \o answers[Len(answers)].found)

\* C12: fetchPoisSimple returns at most limit POIs, no provider call gave
\* back fewer POIs than the provider had, and no POI of the merged set that
\* is left out of the result ranks before one that is in it.
C12_TruncatedAfterRanking ==
    (FetchReturned /\ ~AllEmpty) =>
        /\ Len(result) <= limit
        /\ \A k \in 1..Len(answers) :
               ~answers[k].threw => answers[k].pois = answers[k].found
        /\ \A k \in 1..Len(result) : \E j \in 1..Len(MergedPois) : MergedPois[j] = result[k]
        /\ \A j \in 1..Len(MergedPois) :
               (\A k \in 1..Len(result) : result[k] # MergedPois[j]) =>
                   \A k \in 1..Len(result) : ~RanksBefore(MergedPois[j], result[k], preferences)

\* ---- createSmartItinerary
\* C13: the itinerary createSmartItinerary returns has exactly days entries,
\* the k-th with day index k, whichever branch built it.
C13_ExactlyDaysPlans ==
    pc = "returned" =>
        /\ Len(itineraryDays) = days
        /\ \A k \in 1..Len(itineraryDays) : itineraryDays[k].day = k

\* C14: every entry the day loop pushes carries the roadside stops of its
\* day cut to the first floor(maxRoadsideStops * 0.7) when the day's
\* activity time is over maxDailyDrivingHours * 0.6, and all of them
\* otherwise; and the loop pushes an entry for every day, over budget or not.
C14_BudgetTruncation ==
    impl = "days_u834" =>
        /\ \A k \in 1..Len(itineraryDays) :
               LET config == TRIP_PACE_CONFIG[pace]
                   dayList == dayRoadsideStops(roadsideStops, k, idealDailyDistance, config)
               IN  /\ itineraryDays[k].totalActivityTime = totalActivityTime(dayList)
                   /\ itineraryDays[k].roadsideStops =
                          IF itineraryDays[k].totalActivityTime > config.maxDailyDrivingHours * 6
                          THEN SubSeq(dayList, 1,
                                      Min(Len(dayList), (config.maxRoadsideStops * 7) \div 10))
                          ELSE dayList
        /\ pc = "returned" => Len(itineraryDays) = days

\* Scenario C: a day of the balanced pace whose three roadside stops add up
\* to 5.0 hours against 3.6: the entry keeps the first two.
C14_Witness ==
    /\ pc = "returned"
    /\ impl = "days_u834"
    /\ pace = "balanced"
    /\ Len(dayRoadsideStops(roadsideStops, 1, idealDailyDistance, TRIP_PACE_CONFIG[pace])) = 3
    /\ itineraryDays[1].totalActivityTime = 50
    /\ Len(itineraryDays[1].roadsideStops) = 2

\* ---- findClosestPointOnRoute
\* C15: for a polyline of at least two vertices findClosestPointOnRoute
\* returns the first vertex for target 0 and the last vertex for every
\* target at or beyond the length of the polyline, never null.
C15_EndPoints ==
    (pc = "found" /\ Len(coordinates) >= 2) =>
        /\ routeTarget = 0 =>
               /\ routePoint # NULL
               /\ ~routePoint.nan
               /\ routePoint.lon = coordinates[1]
        /\ routeTarget >= PolylineLength(coordinates) =>
               /\ routePoint # NULL
               /\ ~routePoint.nan
               /\ routePoint.lon = coordinates[Len(coordinates)]

\* ---- executeOverpassQuery
\* C16: any two requests sent to Overpass lie at least OVERPASS_MIN_DELAY
\* apart, however the callers interleave.
C16_MinDelayBetweenRequests ==
    \A i, j \in 1..Len(requestTimes) :
        i < j => requestTimes[j] - requestTimes[i] >= OVERPASS_MIN_DELAY

\* ---- planTrip
\* C17: the array planTrip gathers has one entry per stop, entry i is that
\* of stops[i], in ascending distanceFromStart, whatever order the callbacks
\* returned in; the entry of a stop with a rejected query has empty POI and
\* lodging lists, and the entry of a stop whose queries were both fulfilled
\* has that stop's own lists or, when its progress update threw, empty ones.
C17_GatherKeepsStopOrder ==
    pc = "gathered" =>
        /\ Len(poisPerStop) = Len(stops)
        /\ \A i \in 1..Len(poisPerStop) :
               /\ poisPerStop[i].stop = stops[i]
               /\ (poiQuery[i] = "rejected" \/ accQuery[i] = "rejected") =>
                      (poisPerStop[i].pois = <<>> /\ poisPerStop[i].accommodations = <<>>)
               /\ \A k \in 1..Len(poisPerStop[i].pois) : poisPerStop[i].pois[k].stop = i
               /\ \A k \in 1..Len(poisPerStop[i].accommodations) :
                      poisPerStop[i].accommodations[k].stop = i
               /\ (poiQuery[i] = "fulfilled" /\ accQuery[i] = "fulfilled") =>
                      \/ (poisPerStop[i].pois = PoisNear(i)
                          /\ poisPerStop[i].accommodations = LodgingNear(i))
                      \/ (poisPerStop[i].pois = <<>> /\ poisPerStop[i].accommodations = <<>>)
        /\ \A i \in 1..(Len(poisPerStop) - 1) :
               poisPerStop[i].stop.distanceFromStart < poisPerStop[i + 1].stop.distanceFromStart

\* The callbacks returned last stop first, the first stop's POI query was
\* rejected, and the other stops kept their lists.
C17_Witness ==
    /\ pc = "gathered"
    /\ Len(stops) = 3
    /\ completionOrder = <<3, 2, 1>>
    /\ poiQuery[1] = "rejected"
    /\ poisPerStop[1].pois = <<>>
    /\ poisPerStop[2].pois = PoisNear(2)
    /\ poisPerStop[3].accommodations = LodgingNear(3)

\* C18: when a provider call of the scout stage never responds, the stage
\* still ends: every run of the scout stage eventually returns its stops.
C18_ScoutCompletes == <>(pc = "scouted")

\* The stops computeSmartTripStops returns for the request at hand when no
\* callback is passed: every turn of the overnight loop, then the selection.
RECURSIVE ScoutAll(_, _)
ScoutAll(list, k) == IF k >= maxSamples THEN list ELSE ScoutAll(ScoutTurn(list, k), k + 1)

CallbackFreeStops == selectOvernightStops_ui(ScoutAll(<<>>, 0), idealDailyDistance, days)

\* C19: the progress callback has no effect on control flow: whether it is
\* absent, present or throws, the call ends by returning, with the stops
\* and the (empty) itinerary of the call without a callback.
C19_CallbackHasNoEffect ==
    pc \in {"returned", "rejected"} =>
        /\ pc = "returned"
        /\ stops = CallbackFreeStops
        /\ itineraryDays = <<>>

\* The day count the request came with: the form's value, the argument of
\* computeSmartTripStops, or what the route's duration gives in planTrip.
NonPositiveDays ==
    \/ impl = "planTrip_config" /\ idealDays <= 0
    \/ impl # "planTrip_config" /\ daysInput # <<>> /\ daysInput[1] <= 0

\* C20: a planning request with a non-positive day count or with a route of
\* total distance zero ends rejected: it is never planned or returned, and
\* its day count is never replaced by another value.
C20_InvalidInputRejected ==
    (routeFound /\ (NonPositiveDays \/ totalDistance = 0)) =>
        /\ pc \notin {"planned", "returned"}
        /\ pc # "request" => days <= 0 \/ ~NonPositiveDays

\* The stops selected before the day boundary `day` is handled, and the index
\* (in the sorted candidates) of the stop chosen for it, 0 for none.
SelectedBefore(day) ==
    IF impl = "ui" THEN SelectLoop_ui(overnightStops, idealDailyDistance, day, 1, <<>>)
    ELSE IF impl = "u952" THEN SelectLoop_fb(overnightStops, idealDailyDistance, day, 1, <<>>, 5, 3)
    ELSE SelectLoop_fb(overnightStops, idealDailyDistance, day, 1, <<>>, 4, 2)

ChosenFor(day) ==
    IF impl = "ui" THEN BestStop_ui(overnightStops, SelectedBefore(day), idealDailyDistance, idealDailyDistance * day, 1, 0)
    ELSE IF impl = "u952" THEN NextPick(overnightStops, SelectedBefore(day), idealDailyDistance, idealDailyDistance * day, 5, 3)
    ELSE NextPick(overnightStops, SelectedBefore(day), idealDailyDistance, idealDailyDistance * day, 4, 2)

Unselected(day) ==
    {k \in 1..Len(overnightStops) :
        \A j \in 1..Len(SelectedBefore(day)) : SelectedBefore(day)[j] # overnightStops[k]}

OutOfTolerance(k, day) ==
    10 * Abs(overnightStops[k].distanceFromStart - idealDailyDistance * day)
        > (IF impl = "u2247" THEN 4 ELSE 5) * idealDailyDistance

\* C21: when no unselected candidate lies within the tolerance of a day
\* boundary, the stop chosen for that boundary is the unselected candidate
\* nearest to the boundary's target distance.
C21_FallbackNearest ==
    SelectorReturned =>
        \A day \in 1..(days - 1) :
            (Unselected(day) # {} /\ \A k \in Unselected(day) : OutOfTolerance(k, day)) =>
                /\ ChosenFor(day) # 0
                /\ \A k \in Unselected(day) :
                       Abs(overnightStops[ChosenFor(day)].distanceFromStart - idealDailyDistance * day)
                           <= Abs(overnightStops[k].distanceFromStart - idealDailyDistance * day)

DayLoopRan == impl = "days_u834"

HasOvernightStop(k) == itineraryDays[k].overnightStop # NULL

\* C22: the driving distance of day 1 is its overnight stop's distance from
\* the start (the ideal daily distance without one); that of a later day
\* with an overnight stop is the stop's distance minus the distance of the
\* overnight stop assigned to the day before.
C22_DrivingDistance ==
    DayLoopRan =>
        \A k \in 1..Len(itineraryDays) :
            /\ k = 1 =>
                   itineraryDays[k].drivingDistance =
                       IF HasOvernightStop(k)
                       THEN itineraryDays[k].overnightStop.distanceFromStart
                       ELSE idealDailyDistance
            /\ (k > 1 /\ HasOvernightStop(k) /\ HasOvernightStop(k - 1)) =>
                   itineraryDays[k].drivingDistance =
                       itineraryDays[k].overnightStop.distanceFromStart
                           - itineraryDays[k - 1].overnightStop.distanceFromStart

\* The time estimate of the fixed table, in tenths of an hour, with 1.5 hours
\* for a category the table does not have.
TableEstimate(category) ==
    IF category \in DOMAIN ACTIVITY_TIME_ESTIMATES
    THEN ACTIVITY_TIME_ESTIMATES[category] ELSE 15

RecordedActivitySum(k) ==
    SumSeq([r \in 1..Len(itineraryDays[k].roadsideStops) |->
               SumSeq([a \in 1..Len(itineraryDays[k].roadsideStops[r].attractions) |->
                          TableEstimate(itineraryDays[k].roadsideStops[r].attractions[a].category)])])

\* C23: the activity time recorded in a day's entry is the sum of the table
\* estimates of the attractions of the roadside stops recorded in that same
\* entry, 1.5 hours standing in for a category missing from the table.
C23_ActivityHoursOfRecordedStops ==
    DayLoopRan =>
        \A k \in 1..Len(itineraryDays) :
            itineraryDays[k].totalActivityTime = RecordedActivitySum(k)

MinActivityTime == TRIP_PACE_CONFIG[pace].minActivityTimeTenths

AllBelowMinimum(attractions) ==
    \A a \in 1..Len(attractions) : ActivityTime(attractions[a].category) < MinActivityTime

C25_NonNegativeDrivingDistance ==
    \A k \in 1..Len(itineraryDays) : itineraryDays[k].drivingDistance >= 0

\* C26: no overnight stop is given to two different days of the itinerary.
C26_OneDayPerOvernightStop ==
    \A k \in 1..Len(itineraryDays) : \A j \in 1..Len(itineraryDays) :
        (k # j /\ HasOvernightStop(k)) =>
            itineraryDays[k].overnightStop # itineraryDays[j].overnightStop

\* The day count of the call at hand from its own inputs and the presets.
DaysOfThisCall ==
    DaysFor(totalDuration,
            IF impl = "planTrip_u2028"
            THEN Min(PacePresets[pace].maxDailyDrivingHours, driveTimeRange.max)
            ELSE PacePresets[pace].maxDailyDrivingHours)

\* C27: planTrip leaves the shared pace presets as they are: after any
\* calls every maxDailyDrivingHours has its preset value, and the day count
\* of a call follows from that call's inputs alone.
C27_PresetsUnchanged ==
    /\ \A p \in PaceNames :
           paceConfig[p].maxDailyDrivingHours = PacePresets[p].maxDailyDrivingHours
    /\ plansMade > 0 => days = DaysOfThisCall

\* C28: every planTrip call that disables the submit button enables it
\* again, on success and on every failure, once its awaited calls settle;
\* a call with an empty start or end field never disables it.
C28_ButtonReenabled ==
    /\ submitDisabled ~> ~submitDisabled
    /\ [](~fieldsFilled => ~submitDisabled)

\* A call that failed in the stop computation has ended with the button
\* enabled, after an earlier call on the page.
C28_Witness ==
    /\ pc = "ended"
    /\ plansMade > 1
    /\ fieldsFilled
    /\ tryOutcome = "stop computation error"
    /\ ~submitDisabled

\* The callbacks that reached their updateProgress call, in the order they
\* made it: those whose two queries were both fulfilled.
ProgressCalls ==
    SelectSeq(completionOrder,
              LAMBDA i : poiQuery[i] = "fulfilled" /\ accQuery[i] = "fulfilled")

\* C29: the percentages passed to updateProgress during one planTrip run
\* never decrease, whatever order the per-stop queries complete in.
C29_ProgressNeverDecreases ==
    \A k \in 1..(Len(ProgressCalls) - 1) :
        StopProgress(ProgressCalls[k]) <= StopProgress(ProgressCalls[k + 1])

\* ------------------------------------------------------ SpecAutocomplete
\* The autocomplete of src/autocomplete.js on the start and on the end
\* input: setupAutocomplete is called once per input, each call with its
\* own lastQuery and debounce timer, all of them sharing the module-level
\* currentSuggestions and selectedSuggestionIndex.

MaxSuggestions == 2
MaxInFlight == 2

\* What the user types: nothing left in the field, or the place name meant
\* for that field.
QueryTexts(inp) == IF inp = "start" THEN {"", "paris"} ELSE {"", "rome"}

\* suggestion.displayName, the text selectSuggestion puts into the input.
DisplayName == "display name"

\* src/autocomplete.js:107, 140: query.length >= 3
LongEnough(text) == text # ""

OtherInput(inp) == CHOOSE x \in Inputs : x # inp

\* The list searchLocations resolves with: count places, each marked with
\* the input whose listener searched for them.
SearchResult(inp, count) ==
    [k \in 1..count |-> [for |-> inp, rank |-> k]]

InitAutocomplete ==
    /\ pc = "page"
    /\ focused = "none"
    /\ inputValue = [inp \in Inputs |-> ""]
    /\ lastQuery = [inp \in Inputs |-> ""]
    /\ debounceTimer = [inp \in Inputs |-> FALSE]
    /\ containerShown = [inp \in Inputs |-> FALSE]
    /\ currentSuggestions = <<>>
    /\ selectedSuggestionIndex = -1
    /\ searches = {}
    /\ enteredSuggestion = <<>>
    /\ impl = "autocomplete"
    /\ IdleSelect
    /\ IdleDedup
    /\ IdlePoi
    /\ IdleAssemble
    /\ IdleRoute
    /\ IdleRate
    /\ IdleGather
    /\ IdleScout
    /\ IdleProgress
    /\ IdleRequest
    /\ IdlePreset
    /\ IdleButton

AutoFrame == UNCHANGED <<selVars, dedupVars, poiVars, asmVars, routeVars, rateVars, gatherVars, scoutVars, progressVars, requestVars, presetVars, buttonVars>>

\* src/autocomplete.js:12-36 renderSuggestions(suggestions, container, input)
RenderSuggestions(suggestions, inp) ==
    /\ currentSuggestions' = suggestions
    /\ selectedSuggestionIndex' = -1
    /\ containerShown' = [containerShown EXCEPT ![inp] = Len(suggestions) > 0]

\* src/autocomplete.js:47-68 selectSuggestion(suggestion, input, container);
\* hidden is the display state of the containers when it is called, ok is
\* what validateLocation (src/utils.js:145) says of the place's coordinates.
SelectSuggestion(inp, hidden, ok) ==
    IF ok
    THEN /\ inputValue' = [inputValue EXCEPT ![inp] = DisplayName]
         /\ containerShown' = [hidden EXCEPT ![inp] = FALSE]
         /\ currentSuggestions' = <<>>
         /\ selectedSuggestionIndex' = -1
    ELSE /\ containerShown' = hidden
         /\ UNCHANGED <<inputValue, currentSuggestions, selectedSuggestionIndex>>

\* src/autocomplete.js:138-151 the focus listener, with the document click
\* listener of the other input (131-135) when the focus came from a click.
Focus(inp, byClick) ==
    /\ focused # inp
    /\ focused' = inp
    /\ containerShown' = IF byClick
                         THEN [containerShown EXCEPT ![OtherInput(inp)] = FALSE]
                         ELSE containerShown
    /\ IF LongEnough(inputValue[inp])
       THEN /\ Cardinality(searches) < MaxInFlight
            /\ searches' = searches \cup {[input |-> inp, listener |-> "focus"]}
       ELSE UNCHANGED searches
    /\ UNCHANGED <<inputValue, lastQuery, debounceTimer, currentSuggestions, selectedSuggestionIndex>> /\ enteredSuggestion' = <<>>
    /\ AutoFrame

\* The user edits the focused input: the input event reaches the debounced
\* listener (src/utils.js:163-173), which sets its timeout again.
TypeText(inp, text) ==
    /\ focused = inp
    /\ text # inputValue[inp]
    /\ inputValue' = [inputValue EXCEPT ![inp] = text]
    /\ debounceTimer' = [debounceTimer EXCEPT ![inp] = TRUE]
    /\ UNCHANGED <<focused, lastQuery, containerShown, currentSuggestions, selectedSuggestionIndex, searches>> /\ enteredSuggestion' = <<>>
    /\ AutoFrame

\* src/autocomplete.js:103-116 the input listener up to its await, run when
\* the debounce timeout expires.
DebounceFires(inp) ==
    /\ debounceTimer[inp]
    /\ debounceTimer' = [debounceTimer EXCEPT ![inp] = FALSE]
    /\ IF ~LongEnough(inputValue[inp])
       THEN /\ containerShown' = [containerShown EXCEPT ![inp] = FALSE]
            /\ UNCHANGED <<lastQuery, searches>>
       ELSE IF inputValue[inp] = lastQuery[inp]
       THEN UNCHANGED <<containerShown, lastQuery, searches>>
       ELSE /\ Cardinality(searches) < MaxInFlight
            /\ lastQuery' = [lastQuery EXCEPT ![inp] = inputValue[inp]]
            /\ searches' = searches \cup {[input |-> inp, listener |-> "input"]}
            /\ UNCHANGED containerShown
    /\ UNCHANGED <<focused, inputValue, currentSuggestions, selectedSuggestionIndex>> /\ enteredSuggestion' = <<>>
    /\ AutoFrame

\* src/autocomplete.js:116-120, 143-146 searchLocations resolves and the
\* listener that awaited it renders the list into its own container.
SearchResolves(search, count) ==
    /\ search \in searches
    /\ searches' = searches \ {search}
    /\ RenderSuggestions(SearchResult(search.input, count), search.input)
    /\ UNCHANGED <<focused, inputValue, lastQuery, debounceTimer>> /\ enteredSuggestion' = <<>>
    /\ AutoFrame

\* src/autocomplete.js:121-124, 147-149 searchLocations rejects: the input
\* listener hides its container, the focus listener only logs.
SearchRejects(search) ==
    /\ search \in searches
    /\ searches' = searches \ {search}
    /\ containerShown' = IF search.listener = "input"
                         THEN [containerShown EXCEPT ![search.input] = FALSE]
                         ELSE containerShown
    /\ UNCHANGED <<focused, inputValue, lastQuery, debounceTimer, currentSuggestions, selectedSuggestionIndex>> /\ enteredSuggestion' = <<>>
    /\ AutoFrame

\* The searchLocations calls a listener can be waiting for.
SearchCalls == [input : Inputs, listener : {"input", "focus"}]

Keys == {"ArrowDown", "ArrowUp", "Enter", "Escape"}

\* src/autocomplete.js:71-98 handleInputKeydown(event, input, container)
HandleInputKeydown(inp, key, ok) ==
    /\ focused = inp
    /\ IF ~containerShown[inp]
       THEN UNCHANGED <<inputValue, containerShown, currentSuggestions, selectedSuggestionIndex>> /\ enteredSuggestion' = <<>>
       ELSE CASE key = "ArrowDown" ->
                 /\ selectedSuggestionIndex' = Min(selectedSuggestionIndex + 1, Len(currentSuggestions) - 1)
                 /\ UNCHANGED <<inputValue, containerShown, currentSuggestions>> /\ enteredSuggestion' = <<>>
              [] key = "ArrowUp" ->
                 /\ selectedSuggestionIndex' = Max(selectedSuggestionIndex - 1, -1)
                 /\ UNCHANGED <<inputValue, containerShown, currentSuggestions>> /\ enteredSuggestion' = <<>>
              [] key = "Enter" ->
                 IF selectedSuggestionIndex >= 0 /\ selectedSuggestionIndex + 1 <= Len(currentSuggestions)
                 THEN /\ SelectSuggestion(inp, containerShown, ok)
                      /\ enteredSuggestion' =
                             IF ok
                             THEN <<[input |-> inp, suggestion |-> currentSuggestions[selectedSuggestionIndex + 1]]>>
                             ELSE <<>>
                 ELSE UNCHANGED <<inputValue, containerShown, currentSuggestions, selectedSuggestionIndex>> /\ enteredSuggestion' = <<>>
              [] key = "Escape" ->
                 /\ containerShown' = [containerShown EXCEPT ![inp] = FALSE]
                 /\ selectedSuggestionIndex' = -1
                 /\ UNCHANGED <<inputValue, currentSuggestions>> /\ enteredSuggestion' = <<>>
    /\ UNCHANGED <<focused, lastQuery, debounceTimer, searches>>
    /\ AutoFrame

\* src/autocomplete.js:28-30 the click listener of an item of a container
\* (a container on display holds at least one), then the document click
\* listener of the other input (131-135).
ClickItem(inp, ok) ==
    /\ containerShown[inp]
    /\ focused' = "none"
    /\ SelectSuggestion(inp, [containerShown EXCEPT ![OtherInput(inp)] = FALSE], ok)
    /\ UNCHANGED <<lastQuery, debounceTimer, searches>> /\ enteredSuggestion' = <<>>
    /\ AutoFrame

\* src/autocomplete.js:131-135 a click outside both inputs and containers.
ClickOutside ==
    /\ \E inp \in Inputs : containerShown[inp]
    /\ focused' = "none"
    /\ containerShown' = [inp \in Inputs |-> FALSE]
    /\ UNCHANGED <<inputValue, lastQuery, debounceTimer, currentSuggestions, selectedSuggestionIndex, searches>> /\ enteredSuggestion' = <<>>
    /\ AutoFrame

NextAutocomplete ==
    \/ \E inp \in Inputs, byClick \in BOOLEAN : Focus(inp, byClick)
    \/ \E inp \in Inputs : \E text \in QueryTexts(inp) : TypeText(inp, text)
    \/ \E inp \in Inputs : DebounceFires(inp)
    \/ \E search \in SearchCalls, count \in 0..MaxSuggestions : SearchResolves(search, count)
    \/ \E search \in SearchCalls : SearchRejects(search)
    \/ \E inp \in Inputs, key \in Keys : \E ok \in (IF key = "Enter" THEN BOOLEAN ELSE {TRUE}) : HandleInputKeydown(inp, key, ok)
    \/ \E inp \in Inputs, ok \in BOOLEAN : ClickItem(inp, ok)
    \/ ClickOutside

SpecAutocomplete == InitAutocomplete /\ [][NextAutocomplete]_vars

\* C30: the suggestion Enter writes into an input was returned for a query
\* of that same input, under every interleaving of the events and search
\* responses of the two inputs, and selectedSuggestionIndex stays within
\* -1 .. Len(currentSuggestions) - 1.
C30_EnterWritesOwnSuggestion ==
    /\ \A k \in 1..Len(enteredSuggestion) :
           enteredSuggestion[k].suggestion.for = enteredSuggestion[k].input
    /\ selectedSuggestionIndex \in -1..(Len(currentSuggestions) - 1)

====
